---- MODULE Spec2Model ----
(***************************************************************************)
(* State-machine model of patchbay/base_elements.py: the entity graph of   *)
(* one Group (its Ports, Portgroups and the Connections touching it), the  *)
(* portgroup detection algorithms, the canvas mirroring protocol and the   *)
(* GroupPos value object.                                                   *)
(*                                                                         *)
(* Python strings that the code inspects character by character (port and  *)
(* group names) are sequences of one-character strings.  Strings that are  *)
(* only compared for equality (metadata tags, zones) are TLA+ strings.     *)
(* Every method is an operator from a state record S to the state record   *)
(* after the call; an action applies one public operation to the current   *)
(* state and commits the result.                                           *)
(***************************************************************************)
EXTENDS Integers, Sequences, FiniteSets, TLC

VARIABLES
    ports,                \* Group.ports: sequence of port ids
    port,                 \* the Port objects, by port_id
    portgroups,           \* Group.portgroups: sequence of Portgroup records
    connections,          \* manager.connections: sequence of Connection records
    portgroups_memory,    \* manager.portgroups_memory: sequence of PortgroupMem
    next_port_id,         \* manager: next port id to allocate
    next_portgroup_id,    \* manager: next portgroup id to allocate
    next_connection_id,   \* manager: next connection id to allocate
    group,                \* the scalar fields of the Group
    current_position,     \* Group.current_position (a GroupPos)
    very_fast_operation,  \* manager.very_fast_operation
    optimized_operation,  \* manager.optimized_operation
    port_types_view,      \* manager.port_types_view (PortTypesViewFlag)
    canvas,               \* what the canvas holds: adds minus removes, per id
    calls,                \* the patchcanvas calls emitted by the last operation
    raised,               \* TRUE iff the last operation raised an exception
    avail,                \* port templates the sound server may still announce
    last,                 \* history: the last operation and what it saw
    prev,                 \* history: the operation before the last one
    built,                \* history: the portgroups the last operation built
                          \* from a PortgroupMem, with the PortgroupMem
    serialized,           \* a dictionary produced by GroupPos.as_serializable_dict
    loaded,               \* the GroupPos that from_serialized_dict returned
    answer,               \* what the last query method returned
    heap                  \* GroupPos objects (objs) and the dict objects their
                          \* layout_modes attributes refer to (dicts)

vars == <<ports, port, portgroups, connections, portgroups_memory,
          next_port_id, next_portgroup_id, next_connection_id, group,
          current_position, very_fast_operation, optimized_operation,
          port_types_view, canvas, calls, raised, avail, last, prev, built,
          serialized, loaded, answer, heap>>

----------------------------------------------------------------------------
(* Bounds of the model *)

\* ports announced by the sound server in one run
MaxPorts == 4
\* connections made in one run
MaxConnections == 1
\* portgroups made in one run (the re-sort may remake a portgroup under a new id)
MaxPortgroups == 3
\* GroupPos objects alive in one run
MaxGroupPos == 3

----------------------------------------------------------------------------
(* Enumerations *)

\* JackPortFlag
IS_INPUT == 1
IS_OUTPUT == 2
IS_PHYSICAL == 4
IS_CONTROL_VOLTAGE == 256

\* GroupPosFlag
SPLITTED == 4
WRAPPED_INPUT == 16
WRAPPED_OUTPUT == 32
HAS_BEEN_SPLITTED == 64

\* PortTypesViewFlag
VIEW_AUDIO == 1
VIEW_MIDI == 2
VIEW_CV == 4
VIEW_VIDEO == 8
VIEW_ALL == 15

\* patchcanvas.PortMode
MODE_NULL == 0
MODE_INPUT == 1
MODE_OUTPUT == 2
MODE_BOTH == 3

\* patchcanvas.PortType
TYPE_NULL == 0
AUDIO_JACK == 1
MIDI_JACK == 2
TYPE_VIDEO == 8

\* patchcanvas.PortSubType
REGULAR == 1
CV == 2
A2J == 4

\* patchcanvas.BoxLayoutMode
LAYOUT_AUTO == 0
LAYOUT_HIGH == 1
LAYOUT_LARGE == 2

----------------------------------------------------------------------------
(* Integer and string helpers (Python built-ins) *)

RECURSIVE BitAnd(_, _)
\* a & b on non-negative integers
BitAnd(a, b) ==
    IF a = 0 \/ b = 0 THEN 0
    ELSE (IF a % 2 = 1 /\ b % 2 = 1 THEN 1 ELSE 0) + 2 * BitAnd(a \div 2, b \div 2)

RECURSIVE BitOr(_, _)
\* a | b on non-negative integers
BitOr(a, b) ==
    IF a = 0 THEN b
    ELSE IF b = 0 THEN a
    ELSE (IF a % 2 = 1 \/ b % 2 = 1 THEN 1 ELSE 0) + 2 * BitOr(a \div 2, b \div 2)

\* str.isdigit() of one character
IsDigit(c) == c \in {"0", "1", "2", "3", "4", "5", "6", "7", "8", "9"}

RECURSIVE ParseInt(_)
\* int(s) for a non-empty string of digits
ParseInt(s) ==
    IF Len(s) = 0 THEN 0
    ELSE LET c == s[Len(s)]
             DigitValue ==
                 CASE c = "0" -> 0 [] c = "1" -> 1 [] c = "2" -> 2 [] c = "3" -> 3
                   [] c = "4" -> 4 [] c = "5" -> 5 [] c = "6" -> 6 [] c = "7" -> 7
                   [] c = "8" -> 8 [] c = "9" -> 9
         IN  10 * ParseInt(SubSeq(s, 1, Len(s) - 1)) + DigitValue

RECURSIVE NatToStr(_)
NatToStr(n) ==
    LET DigitChar(d) ==
            CASE d = 0 -> "0" [] d = 1 -> "1" [] d = 2 -> "2" [] d = 3 -> "3"
              [] d = 4 -> "4" [] d = 5 -> "5" [] d = 6 -> "6" [] d = 7 -> "7"
              [] d = 8 -> "8" [] d = 9 -> "9"
    IN  IF n < 10 THEN <<DigitChar(n)>>
        ELSE NatToStr(n \div 10) \o <<DigitChar(n % 10)>>

\* str(n)
IntToStr(n) == IF n < 0 THEN <<"-">> \o NatToStr(0 - n) ELSE NatToStr(n)

\* s.startswith(p)
StartsWith(s, p) == Len(s) >= Len(p) /\ SubSeq(s, 1, Len(p)) = p

\* s.endswith(p)
EndsWith(s, p) == Len(s) >= Len(p) /\ SubSeq(s, Len(s) - Len(p) + 1, Len(s)) = p

\* position of the first occurrence of sep in s, 0 when there is none
Find(s, sep) ==
    LET hits == {i \in 1..(Len(s) - Len(sep) + 1) : SubSeq(s, i, i + Len(sep) - 1) = sep}
    IN  IF hits = {} THEN 0 ELSE CHOOSE i \in hits : \A j \in hits : i <= j

\* sep in s
Contains(s, sep) == Find(s, sep) # 0

\* s.partition(sep)[2]
AfterFirst(s, sep) ==
    LET i == Find(s, sep)
    IN  IF i = 0 THEN <<>> ELSE SubSeq(s, i + Len(sep), Len(s))

\* s.replace(old, new, 1)
ReplaceFirst(s, old, new) ==
    LET i == Find(s, old)
    IN  IF i = 0 THEN s
        ELSE SubSeq(s, 1, i - 1) \o new \o SubSeq(s, i + Len(old), Len(s))

\* s[:-n] for n >= 1
DropLast(s, n) == SubSeq(s, 1, Len(s) - n)

\* x in seq
InSeq(x, seq) == \E i \in 1..Len(seq) : seq[i] = x

\* seq.index(x) (0-based) for x in seq
IndexOf(x, seq) ==
    LET hits == {i \in 1..Len(seq) : seq[i] = x}
    IN  (CHOOSE i \in hits : \A j \in hits : i <= j) - 1

\* list.remove / filtering a sequence by a predicate on its positions
RECURSIVE SelectIdx(_, _, _)
SelectIdx(seq, keep, i) ==
    IF i > Len(seq) THEN <<>>
    ELSE (IF i \in keep THEN <<seq[i]>> ELSE <<>>) \o SelectIdx(seq, keep, i + 1)

----------------------------------------------------------------------------
(* The state record the methods work on *)

State ==
    [ports |-> ports, port |-> port, portgroups |-> portgroups,
     connections |-> connections, portgroups_memory |-> portgroups_memory,
     next_portgroup_id |-> next_portgroup_id, group |-> group,
     current_position |-> current_position,
     very_fast_operation |-> very_fast_operation,
     optimized_operation |-> optimized_operation,
     port_types_view |-> port_types_view,
     canvas |-> canvas, calls |-> <<>>, raised |-> FALSE, built |-> <<>>]

\* a patchcanvas call: the function, the id of the entity and the other arguments
Emit(S, fn, id, arg) ==
    [S EXCEPT !.calls = Append(@, [fn |-> fn, id |-> id, arg |-> arg])]

\* an exception escapes the running method: what it did so far stays done
Raise(S) == [S EXCEPT !.raised = TRUE]

----------------------------------------------------------------------------
(* manager: the callbacks the core consumes *)

\* PatchbayManager.port_type_shown(full_type)
PortTypeShown(view, full_type) ==
    IF full_type[1] = MIDI_JACK THEN BitAnd(view, VIEW_MIDI) # 0
    ELSE IF full_type[1] = AUDIO_JACK /\ full_type[2] = REGULAR
         THEN BitAnd(view, VIEW_AUDIO) # 0
    ELSE IF full_type[1] = AUDIO_JACK /\ full_type[2] = CV
         THEN BitAnd(view, VIEW_CV) # 0
    ELSE FALSE

\* PatchbayManager.optimize_operation(yesno)
OptimizeOperation(S, yesno) ==
    Emit([S EXCEPT !.optimized_operation = yesno], "set_loading_items", 0, <<yesno>>)

----------------------------------------------------------------------------
(* Port *)

NoOrder == <<>>

\* Port.__init__: the subtype follows from the type, the flags and the name
PortSubTypeOf(full_name, type, flags) ==
    IF type = AUDIO_JACK /\ BitAnd(flags, IS_CONTROL_VOLTAGE) # 0 THEN CV
    ELSE IF type = MIDI_JACK
            /\ (StartsWith(full_name, <<"a", "2", "j", ":">>)
                \/ StartsWith(full_name, <<"M", "i", "d", "i", "-", "B", "r", "i", "d", "g", "e", ":">>))
         THEN A2J
    ELSE REGULAR

\* Port.__init__ with the class defaults of the other fields; the order hint,
\* the metadata tag and prevent_stereo are set by the manager on the new Port
NewPort(port_id, t) ==
    [port_id |-> port_id,
     full_name |-> t.full_name,
     type |-> t.type,
     flags |-> t.flags,
     subtype |-> PortSubTypeOf(t.full_name, t.type, t.flags),
     order |-> t.order,
     mdata_portgroup |-> t.mdata_portgroup,
     prevent_stereo |-> t.prevent_stereo,
     display_name |-> <<>>,
     last_digit_to_add |-> <<>>,
     group_id |-> -1,
     portgroup_id |-> 0,
     in_canvas |-> FALSE]

\* Port.mode
Mode(p) ==
    IF BitAnd(p.flags, IS_OUTPUT) # 0 THEN MODE_OUTPUT
    ELSE IF BitAnd(p.flags, IS_INPUT) # 0 THEN MODE_INPUT
    ELSE MODE_NULL

\* Port.full_type
FullType(p) == <<p.type, p.subtype>>

\* Port.short_name taking the text after the first ':' of every name
ShortNameAfterColon(full_name) == AfterFirst(full_name, <<":">>)

\* Port.short_name
ShortName(full_name) ==
    LET long_name == AfterFirst(full_name, <<":">>)
        a2j == StartsWith(full_name, <<"a", "2", "j", ":">>)
        bridge == StartsWith(full_name, <<"M", "i", "d", "i", "-", "B", "r", "i", "d", "g", "e", ":">>)
    IN  IF a2j /\ Contains(long_name, <<":", " ">>)
        THEN AfterFirst(long_name, <<":", " ">>)
        ELSE IF bridge /\ Contains(long_name, <<")", " ">>)
        THEN AfterFirst(long_name, <<")", " ">>)
        ELSE IF bridge /\ Contains(long_name, <<":", " ">>)
        THEN AfterFirst(long_name, <<":", " ">>)
        ELSE long_name

\* Port.add_to_canvas without the test of the type-view filter
PortAddToCanvasUnfiltered(S, id) ==
    IF S.very_fast_operation THEN S
    ELSE IF S.port[id].in_canvas THEN S
    ELSE Emit([S EXCEPT !.port[id].in_canvas = TRUE,
                        !.canvas.ports[id] = @ + 1],
              "add_port", id, <<>>)

\* Port.add_to_canvas without the test of in_canvas
PortAddToCanvasAgain(S, id) ==
    IF S.very_fast_operation THEN S
    ELSE IF ~PortTypeShown(S.port_types_view, FullType(S.port[id])) THEN S
    ELSE Emit([S EXCEPT !.port[id].in_canvas = TRUE,
                        !.canvas.ports[id] = @ + 1],
              "add_port", id, <<>>)

\* Port.add_to_canvas
PortAddToCanvas(S, id) ==
    IF S.very_fast_operation THEN S
    ELSE IF S.port[id].in_canvas THEN S
    ELSE IF ~PortTypeShown(S.port_types_view, FullType(S.port[id])) THEN S
    ELSE Emit([S EXCEPT !.port[id].in_canvas = TRUE,
                        !.canvas.ports[id] = @ + 1],
              "add_port", id, <<>>)

\* Port.remove_from_canvas
PortRemoveFromCanvas(S, id) ==
    IF S.very_fast_operation THEN S
    ELSE IF ~S.port[id].in_canvas THEN S
    ELSE [Emit([S EXCEPT !.canvas.ports[id] = @ - 1], "remove_port", id, <<>>)
            EXCEPT !.port[id].in_canvas = FALSE]

\* Port.rename_in_canvas
PortRenameInCanvas(S, id) ==
    IF ~S.port[id].in_canvas THEN S
    ELSE Emit(S, "rename_port", id, <<>>)

\* Port.select_in_canvas
PortSelectInCanvas(S, id) ==
    IF ~S.port[id].in_canvas THEN S
    ELSE Emit(S, "select_port", id, <<>>)

\* Port.__lt__
PortLt(a, b) ==
    IF a.type # b.type THEN a.type < b.type
    ELSE IF a.subtype # b.subtype THEN a.subtype < b.subtype
    ELSE IF a.order = NoOrder /\ b.order = NoOrder THEN a.port_id < b.port_id
    ELSE IF a.order = NoOrder THEN FALSE
    ELSE IF b.order = NoOrder THEN TRUE
    ELSE a.order[1] < b.order[1]

RECURSIVE InsertSorted(_, _, _)
\* one step of a stable sort of port ids: x goes after every port that is
\* not greater than it
InsertSorted(prt, sorted, x) ==
    IF sorted = <<>> THEN <<x>>
    ELSE IF PortLt(prt[x], prt[sorted[Len(sorted)]])
         THEN Append(InsertSorted(prt, DropLast(sorted, 1), x), sorted[Len(sorted)])
         ELSE Append(sorted, x)

RECURSIVE StableSort(_, _)
\* list.sort() on a list of Ports: stable, and comparing with __lt__ only
StableSort(prt, seq) ==
    IF seq = <<>> THEN <<>>
    ELSE InsertSorted(prt, StableSort(prt, DropLast(seq, 1)), seq[Len(seq)])

\* self.ports.sort() on the Group's list of ports
SortPorts(S) == [S EXCEPT !.ports = StableSort(S.port, S.ports)]

----------------------------------------------------------------------------
(* Portgroup *)

RECURSIVE SetPortgroupId(_, _, _, _)
\* Portgroup.__init__: for port in self.ports: port.portgroup_id = portgroup_id
SetPortgroupId(prt, port_list, i, portgroup_id) ==
    IF i > Len(port_list) THEN prt
    ELSE SetPortgroupId([prt EXCEPT ![port_list[i]].portgroup_id = portgroup_id],
                        port_list, i + 1, portgroup_id)

\* self.manager.new_portgroup(...) followed by self.portgroups.append(portgroup);
\* mdata is what the caller stores in portgroup.mdata_portgroup
NewPortgroup(S, port_mode, port_list, mdata) ==
    LET id == S.next_portgroup_id
        \* Portgroup.__init__, then the mdata_portgroup the caller stores
        pg == [portgroup_id |-> id,
               port_mode |-> port_mode,
               ports |-> port_list,
               mdata_portgroup |-> mdata,
               above_metadatas |-> FALSE,
               in_canvas |-> FALSE]
    IN  [S EXCEPT !.next_portgroup_id = id + 1,
                  !.port = SetPortgroupId(@, port_list, 1, id),
                  !.canvas.portgroups = @ @@ (id :> 0),
                  !.portgroups = Append(@, pg)]

\* new_portgroup for the ports found for a PortgroupMem
NewPortgroupFromMem(S, mem, port_mode, port_list) ==
    [NewPortgroup(S, port_mode, port_list, "")
        EXCEPT !.built = Append(@, [portgroup_id |-> S.next_portgroup_id, mem |-> mem])]

\* Portgroup.port_type
PortgroupType(S, pg) == IF pg.ports = <<>> THEN TYPE_NULL ELSE S.port[pg.ports[1]].type

\* Portgroup.full_type
PortgroupFullType(S, pg) ==
    IF pg.ports = <<>> THEN <<TYPE_NULL, REGULAR>> ELSE FullType(S.port[pg.ports[1]])

\* Portgroup.add_to_canvas, for the portgroup at position k of Group.portgroups
PortgroupAddToCanvas(S, k) ==
    LET pg == S.portgroups[k]
    IN  IF S.very_fast_operation THEN S
        ELSE IF pg.in_canvas THEN S
        ELSE IF ~PortTypeShown(S.port_types_view, PortgroupFullType(S, pg)) THEN S
        ELSE IF Len(pg.ports) < 2 THEN S
        ELSE IF \E i \in 1..Len(pg.ports) : ~S.port[pg.ports[i]].in_canvas THEN S
        ELSE Emit([S EXCEPT !.portgroups[k].in_canvas = TRUE,
                            !.canvas.portgroups[pg.portgroup_id] = @ + 1],
                  "add_portgroup", pg.portgroup_id, <<pg.port_mode, pg.ports>>)

\* Portgroup.remove_from_canvas leaving in_canvas set
PortgroupRemoveFromCanvasKeepFlag(S, k) ==
    LET pg == S.portgroups[k]
    IN  IF S.very_fast_operation THEN S
        ELSE IF ~pg.in_canvas THEN S
        ELSE Emit([S EXCEPT !.canvas.portgroups[pg.portgroup_id] = @ - 1],
                  "remove_portgroup", pg.portgroup_id, <<>>)

\* Portgroup.remove_from_canvas, for the portgroup at position k
PortgroupRemoveFromCanvas(S, k) ==
    LET pg == S.portgroups[k]
    IN  IF S.very_fast_operation THEN S
        ELSE IF ~pg.in_canvas THEN S
        ELSE [Emit([S EXCEPT !.canvas.portgroups[pg.portgroup_id] = @ - 1],
                   "remove_portgroup", pg.portgroup_id, <<>>)
                EXCEPT !.portgroups[k].in_canvas = FALSE]

----------------------------------------------------------------------------
(* Connection *)

\* Connection.full_type
ConnectionFullType(S, c) ==
    <<S.port[c.port_out].type,
      BitOr(S.port[c.port_out].subtype, S.port[c.port_in].subtype)>>

\* Connection.shown_in_port_types_view
ShownInPortTypesView(S, c, view) ==
    LET out == S.port[c.port_out]
        inp == S.port[c.port_in]
    IN  IF out.type = MIDI_JACK THEN BitAnd(view, VIEW_MIDI) # 0
        ELSE IF out.type = AUDIO_JACK /\ inp.type = AUDIO_JACK
             THEN IF out.subtype = CV /\ inp.subtype = CV
                  THEN BitAnd(view, VIEW_CV) # 0
                  ELSE IF out.subtype = REGULAR /\ inp.subtype = REGULAR
                       THEN BitAnd(view, VIEW_AUDIO) # 0
                       ELSE FALSE
             ELSE FALSE

\* Connection.add_to_canvas without the test of the type-view filter
ConnectionAddToCanvasUnfiltered(S, k) ==
    LET c == S.connections[k]
    IN  IF S.very_fast_operation THEN S
        ELSE IF c.in_canvas THEN S
        ELSE Emit([S EXCEPT !.connections[k].in_canvas = TRUE,
                            !.canvas.connections[c.connection_id] = @ + 1],
                  "connect_ports", c.connection_id, <<c.port_out, c.port_in>>)

\* Connection.add_to_canvas, for the connection at position k of manager.connections
ConnectionAddToCanvas(S, k) ==
    LET c == S.connections[k]
    IN  IF S.very_fast_operation THEN S
        ELSE IF c.in_canvas THEN S
        ELSE IF ~PortTypeShown(S.port_types_view, ConnectionFullType(S, c)) THEN S
        ELSE Emit([S EXCEPT !.connections[k].in_canvas = TRUE,
                            !.canvas.connections[c.connection_id] = @ + 1],
                  "connect_ports", c.connection_id, <<c.port_out, c.port_in>>)

\* Connection.remove_from_canvas, for the connection at position k
ConnectionRemoveFromCanvas(S, k) ==
    LET c == S.connections[k]
    IN  IF S.very_fast_operation THEN S
        ELSE IF ~c.in_canvas THEN S
        ELSE [Emit([S EXCEPT !.canvas.connections[c.connection_id] = @ - 1],
                   "disconnect_ports", c.connection_id, <<>>)
                EXCEPT !.connections[k].in_canvas = FALSE]

----------------------------------------------------------------------------
(* Group: canvas lifecycle of the box *)

RECURSIVE ReplaceAll(_, _, _)
\* s.replace(old, new)
ReplaceAll(s, old, new) ==
    LET i == Find(s, old)
    IN  IF i = 0 THEN s
        ELSE SubSeq(s, 1, i - 1) \o new
             \o ReplaceAll(SubSeq(s, i + Len(old), Len(s)), old, new)

\* Group._get_box_type_and_icon: <<box_type, icon_name>>
GetBoxTypeAndIcon(g) ==
    LET upper == <<"A", "B", "C", "D", "E", "F", "G", "H", "I", "J", "K", "L", "M", "N", "O", "P", "Q", "R", "S", "T", "U", "V", "W", "X", "Y", "Z">>
        lower == <<"a", "b", "c", "d", "e", "f", "g", "h", "i", "j", "k", "l", "m", "n", "o", "p", "q", "r", "s", "t", "u", "v", "w", "x", "y", "z">>
        Lower(s) == [i \in 1..Len(s) |->
                        IF InSeq(s[i], upper) THEN lower[IndexOf(s[i], upper) + 1] ELSE s[i]]
        dot == Find(g.name, <<".">>)
        b0 == <<"APPLICATION",
                Lower(IF dot = 0 THEN g.name ELSE SubSeq(g.name, 1, dot - 1))>>
        b1 == IF g.is_hardware
              THEN <<"HARDWARE",
                     IF g.a2j_group \/ g.display_name \in {<<"M", "i", "d", "i", "-", "B", "r", "i", "d", "g", "e">>, <<"a", "2", "j">>}
                     THEN <<"a", "2", "j">> ELSE <<>>>>
              ELSE b0
        b2 == IF g.client_icon # <<>> THEN <<"CLIENT", g.client_icon>> ELSE b1
        b3 == IF StartsWith(g.name, <<"P", "u", "l", "s", "e", "A", "u", "d", "i", "o", " ">>) /\ g.client_icon = <<>>
              THEN IF Contains(Lower(g.name), <<"s", "i", "n", "k">>)
                   THEN <<"MONITOR", <<"m", "o", "n", "i", "t", "o", "r", "_", "p", "l", "a", "y", "b", "a", "c", "k">>>>
                   ELSE IF Contains(Lower(g.name), <<"s", "o", "u", "r", "c", "e">>)
                   THEN <<"MONITOR", <<"m", "o", "n", "i", "t", "o", "r", "_", "c", "a", "p", "t", "u", "r", "e">>>>
                   ELSE b2
              ELSE IF EndsWith(g.name, <<" ", "M", "o", "n", "i", "t", "o", "r">>) /\ g.client_icon = <<>>
              THEN <<"MONITOR", <<"m", "o", "n", "i", "t", "o", "r", "_", "p", "l", "a", "y", "b", "a", "c", "k">>>>
              ELSE b2
    IN  IF g.mdata_icon # <<>> THEN <<b3[1], g.mdata_icon>> ELSE b3

\* Group.set_client_icon
GroupSetClientIcon(S, icon_name, from_metadata) ==
    LET S1 == IF from_metadata THEN [S EXCEPT !.group.mdata_icon = icon_name]
              ELSE [S EXCEPT !.group.client_icon = icon_name]
        box_type == GetBoxTypeAndIcon(S1.group)[1]
    IN  IF S1.group.in_canvas
        THEN Emit(S1, "set_group_icon", S.group.group_id, <<box_type, icon_name>>)
        ELSE S1

\* Group.add_to_canvas
GroupAddToCanvas(S) ==
    IF S.group.in_canvas THEN S
    ELSE
    LET gpos == S.current_position
        do_split == BitAnd(gpos.flags, SPLITTED) # 0
        S1 == [S EXCEPT !.group.display_name =
                   ReplaceAll(ReplaceAll(@, <<".", "0", "/">>, <<"/">>), <<"_">>, <<" ">>)]
        S2 == [Emit(S1, "add_group", S.group.group_id,
                    <<do_split>> \o GetBoxTypeAndIcon(S.group))
                 EXCEPT !.group.in_canvas = TRUE, !.canvas.group = @ + 1]
        S3 == IF do_split
              THEN Emit(Emit([S2 EXCEPT !.current_position.flags =
                                            BitOr(@, HAS_BEEN_SPLITTED)],
                             "wrap_group_box", S.group.group_id,
                             <<MODE_INPUT, BitAnd(gpos.flags, WRAPPED_INPUT) # 0, "animate=False">>),
                        "wrap_group_box", S.group.group_id,
                        <<MODE_OUTPUT, BitAnd(gpos.flags, WRAPPED_OUTPUT) # 0, "animate=False">>)
              ELSE Emit(S2, "wrap_group_box", S.group.group_id,
                        <<MODE_NULL,
                          BitAnd(gpos.flags, WRAPPED_INPUT) # 0
                            /\ BitAnd(gpos.flags, WRAPPED_OUTPUT) # 0,
                          "animate=False">>)
    IN  IF S.group.has_gui
        THEN Emit(S3, "set_optional_gui_state", S.group.group_id, <<S.group.gui_visible>>)
        ELSE S3

\* Group.remove_from_canvas
GroupRemoveFromCanvas(S) ==
    IF ~S.group.in_canvas THEN S
    ELSE [Emit([S EXCEPT !.canvas.group = @ - 1], "remove_group", S.group.group_id, <<>>)
            EXCEPT !.group.in_canvas = FALSE]

\* Group.redraw_in_canvas
GroupRedrawInCanvas(S) ==
    IF ~S.group.in_canvas THEN S
    ELSE Emit(S, "redraw_group", S.group.group_id, <<>>)

RECURSIVE ForEachPort(_, _, _)
\* for port in self.ports: port.<method>(), the method given by name
ForEachPort(S, method, i) ==
    IF i > Len(S.ports) THEN S
    ELSE ForEachPort(
            CASE method = "add_to_canvas" -> PortAddToCanvas(S, S.ports[i])
              [] method = "remove_from_canvas" -> PortRemoveFromCanvas(S, S.ports[i])
              [] method = "rename_in_canvas" -> PortRenameInCanvas(S, S.ports[i])
              [] method = "remove_if_not_shown" ->
                    IF ~PortTypeShown(S.port_types_view, FullType(S.port[S.ports[i]]))
                    THEN PortRemoveFromCanvas(S, S.ports[i]) ELSE S,
            method, i + 1)

RECURSIVE ForEachPortgroup(_, _, _)
\* for portgroup in self.portgroups: portgroup.<method>()
ForEachPortgroup(S, method, k) ==
    IF k > Len(S.portgroups) THEN S
    ELSE ForEachPortgroup(
            CASE method = "add_to_canvas" -> PortgroupAddToCanvas(S, k)
              [] method = "remove_from_canvas" -> PortgroupRemoveFromCanvas(S, k)
              [] method = "remove_if_not_shown" ->
                    IF ~PortTypeShown(S.port_types_view, PortgroupFullType(S, S.portgroups[k]))
                    THEN PortgroupRemoveFromCanvas(S, k) ELSE S,
            method, k + 1)

\* Group.change_port_types_view leaving the box of the Group in the canvas
ChangePortTypesViewKeepBox(S) ==
    LET S1 == GroupAddToCanvas(S)
        S2 == ForEachPortgroup(S1, "remove_if_not_shown", 1)
        S3 == ForEachPort(S2, "remove_if_not_shown", 1)
        S4 == ForEachPort(S3, "add_to_canvas", 1)
    IN  ForEachPortgroup(S4, "add_to_canvas", 1)

\* Group.change_port_types_view
ChangePortTypesView(S) ==
    LET S1 == GroupAddToCanvas(S)
        S2 == ForEachPortgroup(S1, "remove_if_not_shown", 1)
        S3 == ForEachPort(S2, "remove_if_not_shown", 1)
        S4 == ForEachPort(S3, "add_to_canvas", 1)
        S5 == ForEachPortgroup(S4, "add_to_canvas", 1)
    IN  IF \E i \in 1..Len(S5.ports) : S5.port[S5.ports[i]].in_canvas
        THEN S5 ELSE GroupRemoveFromCanvas(S5)

----------------------------------------------------------------------------
(* Group: ports and portgroups *)

\* Group.add_port; port is a new Port object
GroupAddPort(S, new_port) ==
    LET full == new_port.full_name
        port_full_name ==
            IF StartsWith(full, <<"a", "2", "j", ":">>) /\ BitAnd(new_port.flags, IS_PHYSICAL) = 0
            THEN AfterFirst(full, <<":">>) ELSE full
        p == [new_port EXCEPT !.group_id = S.group.group_id,
                              !.display_name = AfterFirst(port_full_name, <<":">>)]
        first == S.ports = <<>>
        hardware == IF first /\ BitAnd(new_port.flags, IS_PHYSICAL) # 0
                    THEN TRUE ELSE S.group.is_hardware
        gpos == S.current_position
        position ==
            IF first /\ ~gpos.fully_set
            THEN [gpos EXCEPT !.flags = IF hardware THEN BitOr(@, SPLITTED) ELSE @,
                              !.fully_set = TRUE]
            ELSE gpos
    IN  [S EXCEPT !.group.is_hardware = hardware,
                  !.current_position = position,
                  !.ports = Append(@, p.port_id),
                  !.port = @ @@ (p.port_id :> p),
                  !.canvas.ports = @ @@ (p.port_id :> 0)]

RECURSIVE ResetPortgroupId(_, _, _)
\* for port in portgroup.ports: port.portgroup_id = 0
ResetPortgroupId(prt, port_list, i) ==
    IF i > Len(port_list) THEN prt
    ELSE ResetPortgroupId([prt EXCEPT ![port_list[i]].portgroup_id = 0], port_list, i + 1)

\* Group.remove_portgroup, the portgroup given by its id
GroupRemovePortgroup(S, portgroup_id) ==
    LET hits == {i \in 1..Len(S.portgroups) : S.portgroups[i].portgroup_id = portgroup_id}
        \* its position in Group.portgroups, 0 when absent
        k == IF hits = {} THEN 0 ELSE CHOOSE i \in hits : TRUE
    IN  IF k = 0 THEN S
        ELSE LET S1 == PortgroupRemoveFromCanvas(S, k)
             IN  [S1 EXCEPT !.port = ResetPortgroupId(@, S.portgroups[k].ports, 1),
                            !.portgroups = SelectIdx(@, (1..Len(@)) \ {k}, 1)]

RECURSIVE RemovePortgroups(_, _, _)
\* for portgroup in <list>: self.remove_portgroup(portgroup)
RemovePortgroups(S, ids, i) ==
    IF i > Len(ids) THEN S
    ELSE RemovePortgroups(GroupRemovePortgroup(S, ids[i]), ids, i + 1)

\* Group.remove_port (the manager's registry of the ports by name is left out)
GroupRemovePort(S, id) ==
    IF ~InSeq(id, S.ports) THEN S
    ELSE [S EXCEPT !.ports = SelectIdx(@, {i \in 1..Len(@) : @[i] # id}, 1)]

\* Group.remove_all_ports
GroupRemoveAllPorts(S) ==
    LET S1 == IF S.group.in_canvas
              THEN ForEachPort(ForEachPortgroup(S, "remove_from_canvas", 1),
                               "remove_from_canvas", 1)
              ELSE S
    IN  [S1 EXCEPT !.portgroups = <<>>, !.ports = <<>>]

\* the type and mode test of a port against a PortgroupMem
MemMatchesPort(mem, p) == p.type = mem.port_type /\ Mode(p) = mem.port_mode

RECURSIVE MemoryAddedScanNoBreak(_, _, _, _)
\* the loop of portgroup_memory_added going on after a port that breaks the
\* run of the remembered names
MemoryAddedScanNoBreak(S, mem, i, port_list) ==
    IF i > Len(S.ports) THEN S
    ELSE LET p == S.port[S.ports[i]]
         IN  IF ~MemMatchesPort(mem, p) THEN MemoryAddedScanNoBreak(S, mem, i + 1, port_list)
             ELSE IF Len(port_list) >= Len(mem.port_names) THEN Raise(S)
             ELSE IF ShortName(p.full_name) = mem.port_names[Len(port_list) + 1]
                  THEN LET pl == Append(port_list, p.port_id)
                       IN  IF Len(pl) = Len(mem.port_names)
                           THEN LET S1 == NewPortgroupFromMem(S, mem, Mode(p), pl)
                                IN  PortgroupAddToCanvas(S1, Len(S1.portgroups))
                           ELSE MemoryAddedScanNoBreak(S, mem, i + 1, pl)
             ELSE MemoryAddedScanNoBreak(S, mem, i + 1, port_list)

RECURSIVE MemoryAddedScan(_, _, _, _)
\* Group.portgroup_memory_added, the loop that builds the remembered portgroup
MemoryAddedScan(S, mem, i, port_list) ==
    IF i > Len(S.ports) THEN S
    ELSE LET p == S.port[S.ports[i]]
         IN  IF ~MemMatchesPort(mem, p) THEN MemoryAddedScan(S, mem, i + 1, port_list)
             ELSE IF Len(port_list) >= Len(mem.port_names) THEN Raise(S)
             ELSE IF ShortName(p.full_name) = mem.port_names[Len(port_list) + 1]
                  THEN LET pl == Append(port_list, p.port_id)
                       IN  IF Len(pl) = Len(mem.port_names)
                           THEN LET S1 == NewPortgroupFromMem(S, mem, Mode(p), pl)
                                IN  PortgroupAddToCanvas(S1, Len(S1.portgroups))
                           ELSE MemoryAddedScan(S, mem, i + 1, pl)
             ELSE IF port_list # <<>> THEN S
             ELSE MemoryAddedScan(S, mem, i + 1, port_list)

\* Group.portgroup_memory_added
PortgroupMemoryAdded(S, mem) ==
    IF mem.group_name # S.group.name THEN S
    ELSE
    LET hit(pg) == /\ pg.port_mode = mem.port_mode
                   /\ PortgroupType(S, pg) = mem.port_type
                   /\ \E i \in 1..Len(pg.ports) :
                         InSeq(ShortName(S.port[pg.ports[i]].full_name), mem.port_names)
        remove_set == {k \in 1..Len(S.portgroups) : hit(S.portgroups[k])}
        ids == [k \in 1..Len(S.portgroups) |-> S.portgroups[k].portgroup_id]
        S1 == RemovePortgroups(S, SelectIdx(ids, remove_set, 1), 1)
    IN  MemoryAddedScan(S1, mem, 1, <<>>)

----------------------------------------------------------------------------
(* Group: heuristic stereo detection *)

\* no Port (None)
NoPort == 0

\* number of digits at the end of s
RECURSIVE TrailingDigits(_)
TrailingDigits(s) ==
    IF s # <<>> /\ IsDigit(s[Len(s)]) THEN 1 + TrailingDigits(DropLast(s, 1)) ELSE 0

\* the words after which "R " / "right " / "Right " is looked for
StereoWords ==
    <<<<"o", "u", "t">>, <<"O", "u", "t">>, <<"o", "u", "t", "p", "u", "t">>, <<"O", "u", "t", "p", "u", "t">>, <<"i", "n">>, <<"I", "n">>,
      <<"i", "n", "p", "u", "t">>, <<"I", "n", "p", "u", "t">>, <<"a", "u", "d", "i", "o", " ", "i", "n", "p", "u", "t">>, <<"a", "u", "d", "i", "o", " ", "o", "u", "t", "p", "u", "t">>>>

\* stereo_detection: what the loop over the words adds to may_match_set
WordMatches(port_name) ==
    UNION {IF EndsWith(port_name, <<"R", " ">> \o StereoWords[i])
           THEN {<<"L", " ">> \o StereoWords[i]}
           ELSE IF EndsWith(port_name, <<"r", "i", "g", "h", "t", " ">> \o StereoWords[i])
           THEN {<<"l", "e", "f", "t", " ">> \o StereoWords[i]}
           ELSE IF EndsWith(port_name, <<"R", "i", "g", "h", "t", " ">> \o StereoWords[i])
           THEN {<<"L", "e", "f", "t", " ">> \o StereoWords[i]}
           ELSE {} : i \in 1..Len(StereoWords)}

\* DigitMatches with the decrement of the number forgotten
DigitMatchesNoDecrement(port_name) ==
    LET n == TrailingDigits(port_name)
        base_port == DropLast(port_name, n)
        in_num == SubSeq(port_name, Len(port_name) - n + 1, Len(port_name))
        num == ParseInt(in_num)
    IN  IF EndsWith(base_port, <<"R">>)
        THEN {DropLast(base_port, 1) \o <<"L">> \o in_num}
        ELSE {base_port \o IntToStr(num)}
             \cup (IF num \in {1, 2}
                   THEN IF EndsWith(base_port, <<" ">>) \/ EndsWith(base_port, <<"_">>)
                        THEN {DropLast(base_port, 1)}
                        ELSE {base_port}
                   ELSE {})

\* DigitMatches with the bare name added whatever the number is
DigitMatchesAnyBare(port_name) ==
    LET n == TrailingDigits(port_name)
        base_port == DropLast(port_name, n)
        in_num == SubSeq(port_name, Len(port_name) - n + 1, Len(port_name))
        num == ParseInt(in_num)
    IN  IF EndsWith(base_port, <<"R">>)
        THEN {DropLast(base_port, 1) \o <<"L">> \o in_num}
        ELSE {base_port \o IntToStr(num - 1)}
             \cup (IF EndsWith(base_port, <<" ">>) \/ EndsWith(base_port, <<"_">>)
                   THEN {DropLast(base_port, 1)}
                   ELSE {base_port})

\* stereo_detection: may_match_set of a name ending with a digit
\* (the name has a non-digit before its final digits)
DigitMatches(port_name) ==
    LET n == TrailingDigits(port_name)
        base_port == DropLast(port_name, n)
        in_num == SubSeq(port_name, Len(port_name) - n + 1, Len(port_name))
        num == ParseInt(in_num)
    IN  IF EndsWith(base_port, <<"R">>)
        THEN {DropLast(base_port, 1) \o <<"L">> \o in_num}
        ELSE {base_port \o IntToStr(num - 1)}
             \cup (IF num \in {1, 2}
                   THEN IF EndsWith(base_port, <<" ">>) \/ EndsWith(base_port, <<"_">>)
                        THEN {DropLast(base_port, 1)}
                        ELSE {base_port}
                   ELSE {})

\* stereo_detection: may_match_set of a name ending with a non digit
NonDigitMatches(port_name) ==
    (IF EndsWith(port_name, <<"R">>)
     THEN {DropLast(port_name, 1) \o <<"L">>}
          \cup (IF Len(port_name) >= 2
                THEN IF port_name[Len(port_name) - 1] = " "
                     THEN {DropLast(port_name, 2)}
                     ELSE {DropLast(port_name, 1)}
                ELSE {})
     ELSE IF EndsWith(port_name, <<"r", "i", "g", "h", "t">>)
     THEN {DropLast(port_name, 5) \o <<"l", "e", "f", "t">>}
     ELSE IF EndsWith(port_name, <<"R", "i", "g", "h", "t">>)
     THEN {DropLast(port_name, 5) \o <<"L", "e", "f", "t">>}
     ELSE IF EndsWith(port_name, <<"(", "R", "i", "g", "h", "t", ")">>)
     THEN {DropLast(port_name, 7) \o <<"(", "L", "e", "f", "t", ")">>}
     ELSE IF EndsWith(port_name, <<".", "r">>)
     THEN {DropLast(port_name, 2) \o <<".", "l">>}
     ELSE IF EndsWith(port_name, <<"_", "r">>)
     THEN {DropLast(port_name, 2) \o <<"_", "l">>}
     ELSE IF EndsWith(port_name, <<"_", "r", "\n">>)
     THEN {DropLast(port_name, 3) \o <<"_", "l", "\n">>}
     ELSE {})
    \cup WordMatches(port_name)

\* stereo_detection: the test that makes a port a candidate left port
StereoEligible(p, other) ==
    /\ other.port_id # p.port_id
    /\ other.type = p.type
    /\ other.subtype = p.subtype
    /\ Mode(other) = Mode(p)
    /\ other.portgroup_id = 0
    /\ ~other.prevent_stereo

\* the test of the memory made with the full name of other_port
InRememberedPortgroupByFullName(S, other) ==
    \E m \in 1..Len(S.portgroups_memory) :
        LET mem == S.portgroups_memory[m]
        IN  /\ mem.group_name = S.group.name
            /\ mem.port_mode = Mode(other)
            /\ mem.port_type = other.type
            /\ InSeq(other.full_name, mem.port_names)

\* stereo_detection: other_port is named by a remembered portgroup
InRememberedPortgroup(S, other) ==
    \E m \in 1..Len(S.portgroups_memory) :
        LET mem == S.portgroups_memory[m]
        IN  /\ mem.group_name = S.group.name
            /\ mem.port_mode = Mode(other)
            /\ mem.port_type = other.type
            /\ InSeq(ShortName(other.full_name), mem.port_names)

\* Group.stereo_detection: [raised, other], other the left port or NoPort
StereoDetection(S, id) ==
    LET p == S.port[id]
        none == [raised |-> FALSE, other |-> NoPort]
        cands == {i \in 1..Len(S.ports) : StereoEligible(p, S.port[S.ports[i]])}
    IN  IF p.type # AUDIO_JACK \/ p.subtype # REGULAR THEN none
        ELSE IF cands = {} THEN none
        ELSE
        LET other == S.port[S.ports[CHOOSE i \in cands : \A j \in cands : j <= i]]
            port_name == ReplaceFirst(p.full_name, S.group.name \o <<":">>, <<>>)
            other_port_name == ReplaceFirst(other.full_name, S.group.name \o <<":">>, <<>>)
        IN  IF InRememberedPortgroup(S, other) THEN none
            ELSE IF BitAnd(p.flags, IS_PHYSICAL) # 0
            THEN [raised |-> FALSE, other |-> other.port_id]
            ELSE IF port_name = <<>> THEN [raised |-> TRUE, other |-> NoPort]
            ELSE IF IsDigit(port_name[Len(port_name)])
            THEN IF TrailingDigits(port_name) = Len(port_name)
                 THEN [raised |-> TRUE, other |-> NoPort]
                 ELSE IF other_port_name \in DigitMatches(port_name)
                      THEN [raised |-> FALSE, other |-> other.port_id]
                      ELSE none
            ELSE IF other_port_name \in NonDigitMatches(port_name)
                 THEN [raised |-> FALSE, other |-> other.port_id]
                 ELSE none

----------------------------------------------------------------------------
(* Group: detection on the arrival of a port *)

RECURSIVE RememberedScan(_, _, _, _, _)
\* check_for_portgroup_on_last_port: the loop over self.ports for one
\* PortgroupMem; [S, returned], returned when the method returns from the loop
RememberedScan(S, mem, last_port, i, port_list) ==
    IF i > Len(S.ports) THEN [S |-> S, returned |-> FALSE]
    ELSE LET p == S.port[S.ports[i]]
         IN  IF ~(p.type = last_port.type /\ Mode(p) = Mode(last_port))
             THEN RememberedScan(S, mem, last_port, i + 1, port_list)
             ELSE IF /\ Len(mem.port_names) > Len(port_list)
                     /\ ShortName(p.full_name) = mem.port_names[Len(port_list) + 1]
             THEN LET pl == Append(port_list, p.port_id)
                  IN  IF Len(pl) = Len(mem.port_names)
                      THEN LET S1 == NewPortgroupFromMem(S, mem, Mode(p), pl)
                               S2 == IF \A j \in 1..Len(pl) : S1.port[pl[j]].in_canvas
                                     THEN PortgroupAddToCanvas(S1, Len(S1.portgroups))
                                     ELSE S1
                           IN  RememberedScan(S2, mem, last_port, i + 1, pl)
                      ELSE RememberedScan(S, mem, last_port, i + 1, pl)
             ELSE IF port_list # <<>> THEN [S |-> S, returned |-> TRUE]
             ELSE RememberedScan(S, mem, last_port, i + 1, port_list)

RECURSIVE RememberedLoop(_, _, _)
\* check_for_portgroup_on_last_port: the loop over manager.portgroups_memory;
\* [S, returned]
RememberedLoop(S, last_port, m) ==
    IF m > Len(S.portgroups_memory) THEN [S |-> S, returned |-> FALSE]
    ELSE LET mem == S.portgroups_memory[m]
             last_port_name == ShortName(last_port.full_name)
         IN  IF ~(/\ mem.group_name = S.group.name
                  /\ mem.port_type = last_port.type
                  /\ mem.port_mode = Mode(last_port))
             THEN RememberedLoop(S, last_port, m + 1)
             ELSE IF mem.port_names = <<>> THEN [S |-> Raise(S), returned |-> TRUE]
             ELSE IF last_port_name # mem.port_names[Len(mem.port_names)]
             THEN RememberedLoop(S, last_port, m + 1)
             ELSE IF \/ Len(mem.port_names) = 1
                     \/ IndexOf(last_port_name, mem.port_names) + 1 # Len(mem.port_names)
             THEN [S |-> S, returned |-> TRUE]
             ELSE LET r == RememberedScan(S, mem, last_port, 1, <<>>)
                  IN  IF r.returned THEN r
                      ELSE RememberedLoop(r.S, last_port, m + 1)

\* Group.graceful_port for a Group whose pretty client is a2j (Group.name is
\* 'a2j'): the a2j branch and the Midi-Bridge reduction
GracefulPortA2j(S, id) ==
    LET prt == S.port[id]
        \* the naming of a port whose short_name() is s_display_name
        Graceful(s_display_name) ==
            LET n == TrailingDigits(s_display_name)
                name == SubSeq(s_display_name, 1, Len(s_display_name) - n)
                digits == SubSeq(s_display_name, Len(s_display_name) - n + 1, Len(s_display_name))
                \* split_end_digits
                num == IF digits # <<>> /\ digits[1] = "0" /\ digits \notin {<<"0">>, <<"0", "9">>}
                       THEN Tail(digits) ELSE digits
                \* cut_end for a name that ends with end: name.rsplit(end)[0]
                CutEnd(end) == SubSeq(name, 1, Find(name, end) - 1)
                r == IF num = <<>> THEN [name |-> name, defer |-> prt.last_digit_to_add]
                     ELSE IF EndsWith(name, <<" ", "M", "I", "D", "I", " ">>)
                     THEN IF num = <<"1">>
                          THEN [name |-> CutEnd(<<" ", "M", "I", "D", "I", " ">>), defer |-> <<"1">>]
                          ELSE [name |-> CutEnd(<<" ", "M", "I", "D", "I", " ">>) \o <<" ">> \o num,
                                defer |-> prt.last_digit_to_add]
                     ELSE IF EndsWith(name, <<" ", "P", "o", "r", "t", "-">>)
                     THEN IF num = <<"0">>
                          THEN [name |-> CutEnd(<<" ", "P", "o", "r", "t", "-">>), defer |-> <<"0">>]
                          ELSE [name |-> CutEnd(<<" ", "P", "o", "r", "t", "-">>) \o <<" ">> \o num,
                                defer |-> prt.last_digit_to_add]
                     ELSE [name |-> name, defer |-> prt.last_digit_to_add]
                display_name ==
                    IF /\ StartsWith(prt.full_name, <<"M", "i", "d", "i", "-", "B", "r", "i", "d", "g", "e">>)
                       /\ \/ StartsWith(r.name, <<"c", "a", "p", "t", "u", "r", "e", "_">>)
                          \/ StartsWith(r.name, <<"p", "l", "a", "y", "b", "a", "c", "k", "_">>)
                    THEN AfterFirst(r.name, <<"_">>) ELSE r.name
            IN  [S EXCEPT !.port[id].last_digit_to_add = r.defer,
                          !.port[id].display_name =
                              IF display_name # <<>> THEN display_name ELSE s_display_name]
    IN  Graceful(ShortName(prt.full_name))

\* Group.check_for_display_name_on_last_port, the name test applying to both
\* deferred digits
CheckForDisplayNameBothDigits(S) ==
    IF S.ports = <<>> THEN S
    ELSE
    LET last_port == S.port[S.ports[Len(S.ports)]]
        full == last_port.full_name
    IN  IF full = <<>> THEN Raise(S)
        ELSE
        LET last_digit == full[Len(full)]
            same == {i \in 1..(Len(S.ports) - 1) :
                        /\ S.port[S.ports[i]].type = last_port.type
                        /\ Mode(S.port[S.ports[i]]) = Mode(last_port)}
        IN  IF last_digit \notin {"1", "2"} \/ same = {} THEN S
            ELSE
            LET id == S.ports[CHOOSE i \in same : \A j \in same : j <= i]
                prt == S.port[id]
            IN  IF /\ DropLast(prt.full_name, 1) = DropLast(full, 1)
                   /\ \/ prt.last_digit_to_add = <<"0">> /\ last_digit = "1"
                      \/ prt.last_digit_to_add = <<"1">> /\ last_digit = "2"
                THEN \* Port.add_the_last_digit
                     PortRenameInCanvas(
                        [S EXCEPT !.port[id].display_name = @ \o <<" ">> \o prt.last_digit_to_add,
                                  !.port[id].last_digit_to_add = <<>>], id)
                ELSE S

\* Group.check_for_display_name_on_last_port
CheckForDisplayNameOnLastPort(S) ==
    IF S.ports = <<>> THEN S
    ELSE
    LET last_port == S.port[S.ports[Len(S.ports)]]
        full == last_port.full_name
    IN  IF full = <<>> THEN Raise(S)
        ELSE
        LET last_digit == full[Len(full)]
            same == {i \in 1..(Len(S.ports) - 1) :
                        /\ S.port[S.ports[i]].type = last_port.type
                        /\ Mode(S.port[S.ports[i]]) = Mode(last_port)}
        IN  IF last_digit \notin {"1", "2"} \/ same = {} THEN S
            ELSE
            LET id == S.ports[CHOOSE i \in same : \A j \in same : j <= i]
                prt == S.port[id]
            IN  IF \/ /\ DropLast(prt.full_name, 1) = DropLast(full, 1)
                      /\ prt.last_digit_to_add = <<"0">> /\ last_digit = "1"
                   \/ prt.last_digit_to_add = <<"1">> /\ last_digit = "2"
                THEN \* Port.add_the_last_digit
                     PortRenameInCanvas(
                        [S EXCEPT !.port[id].display_name = @ \o <<" ">> \o prt.last_digit_to_add,
                                  !.port[id].last_digit_to_add = <<>>], id)
                ELSE S

\* Group.check_for_portgroup_on_last_port
CheckForPortgroupOnLastPort(S) ==
    IF S.ports = <<>> THEN S
    ELSE
    LET last_port == S.port[S.ports[Len(S.ports)]]
        r == RememberedLoop(S, last_port, 1)
    IN  IF r.returned THEN r.S
        ELSE LET d == StereoDetection(r.S, last_port.port_id)
             IN  IF d.raised THEN Raise(r.S)
                 ELSE IF d.other = NoPort THEN r.S
                 ELSE LET S1 == NewPortgroup(r.S, Mode(last_port),
                                             <<d.other, last_port.port_id>>, "")
                      IN  IF S1.group.in_canvas
                          THEN PortgroupAddToCanvas(S1, Len(S1.portgroups))
                          ELSE S1

----------------------------------------------------------------------------
(* Group: re-sort and re-validation of the portgroups *)

RECURSIVE ForEachConnection(_, _, _, _)
\* for connection in conn_list: connection.<method>()
ForEachConnection(S, conn_list, method, i) ==
    IF i > Len(conn_list) THEN S
    ELSE ForEachConnection(
            IF method = "add_to_canvas" THEN ConnectionAddToCanvas(S, conn_list[i])
            ELSE ConnectionRemoveFromCanvas(S, conn_list[i]),
            conn_list, method, i + 1)

\* sort_ports_in_canvas: the connections with an end among the Group's ports,
\* as positions in manager.connections
ConnList(S) ==
    SelectIdx([k \in 1..Len(S.connections) |-> k],
              {k \in 1..Len(S.connections) :
                  \E i \in 1..Len(S.ports) :
                      S.ports[i] \in {S.connections[k].port_out, S.connections[k].port_in}},
              1)

RECURSIVE PortgroupBrokenAllowGap(_, _, _, _, _, _)
\* the scan for one existing portgroup going on after a port that stands
\* between two of its ports
PortgroupBrokenAllowGap(S, pg, i, search_index, previous_port, seems_ok) ==
    IF i > Len(S.ports) THEN ~seems_ok
    ELSE
    LET p == S.port[S.ports[i]]
    IN  IF ~seems_ok /\ p.port_id = pg.ports[search_index + 1]
        THEN IF p.mdata_portgroup # pg.mdata_portgroup /\ ~pg.above_metadatas
             THEN TRUE
             ELSE IF /\ ~pg.above_metadatas
                     /\ search_index = 0
                     /\ previous_port # NoPort
                     /\ S.port[previous_port].mdata_portgroup # ""
                     /\ S.port[previous_port].mdata_portgroup = p.mdata_portgroup
             THEN TRUE
             ELSE IF search_index + 1 = Len(pg.ports)
                  THEN IF pg.above_metadatas \/ pg.mdata_portgroup = ""
                       THEN FALSE
                       ELSE PortgroupBrokenAllowGap(S, pg, i + 1, search_index + 1,
                                                    p.port_id, TRUE)
                  ELSE PortgroupBrokenAllowGap(S, pg, i + 1, search_index + 1,
                                               p.port_id, seems_ok)
        ELSE IF search_index # 0 /\ seems_ok
        THEN IF \/ p.mdata_portgroup # S.port[previous_port].mdata_portgroup
                \/ p.type # PortgroupType(S, pg)
                \/ Mode(p) # pg.port_mode
             THEN FALSE
             ELSE TRUE
        ELSE PortgroupBrokenAllowGap(S, pg, i + 1, search_index, p.port_id, seems_ok)

RECURSIVE PortgroupBroken(_, _, _, _, _, _)
\* sort_ports_in_canvas: the scan of self.ports for one existing portgroup;
\* TRUE iff the portgroup goes to portgroups_to_remove
PortgroupBroken(S, pg, i, search_index, previous_port, seems_ok) ==
    IF i > Len(S.ports) THEN ~seems_ok
    ELSE
    LET p == S.port[S.ports[i]]
    IN  IF ~seems_ok /\ p.port_id = pg.ports[search_index + 1]
        THEN IF p.mdata_portgroup # pg.mdata_portgroup /\ ~pg.above_metadatas
             THEN TRUE
             ELSE IF /\ ~pg.above_metadatas
                     /\ search_index = 0
                     /\ previous_port # NoPort
                     /\ S.port[previous_port].mdata_portgroup # ""
                     /\ S.port[previous_port].mdata_portgroup = p.mdata_portgroup
             THEN TRUE
             ELSE IF search_index + 1 = Len(pg.ports)
                  THEN IF pg.above_metadatas \/ pg.mdata_portgroup = ""
                       THEN FALSE
                       ELSE PortgroupBroken(S, pg, i + 1, search_index + 1, p.port_id, TRUE)
                  ELSE PortgroupBroken(S, pg, i + 1, search_index + 1, p.port_id, seems_ok)
        ELSE IF search_index # 0
        THEN IF /\ seems_ok
                /\ \/ p.mdata_portgroup # S.port[previous_port].mdata_portgroup
                   \/ p.type # PortgroupType(S, pg)
                   \/ Mode(p) # pg.port_mode
             THEN FALSE
             ELSE TRUE
        ELSE PortgroupBroken(S, pg, i + 1, search_index, p.port_id, seems_ok)

\* sort_ports_in_canvas: portgroups_to_remove, as portgroup ids
PortgroupsToRemove(S) ==
    SelectIdx([k \in 1..Len(S.portgroups) |-> S.portgroups[k].portgroup_id],
              {k \in 1..Len(S.portgroups) :
                  PortgroupBroken(S, S.portgroups[k], 1, 0, NoPort, FALSE)},
              1)

RECURSIVE MemoryScan(_, _, _, _)
\* sort_ports_in_canvas: the loop over self.ports for one PortgroupMem
MemoryScan(S, mem, i, founded_ports) ==
    IF i > Len(S.ports) THEN S
    ELSE LET p == S.port[S.ports[i]]
             first3 == p.portgroup_id = 0 /\ MemMatchesPort(mem, p)
         IN  IF first3 /\ Len(founded_ports) >= Len(mem.port_names) THEN Raise(S)
             ELSE IF first3 /\ ShortName(p.full_name) = mem.port_names[Len(founded_ports) + 1]
             THEN LET fp == Append(founded_ports, p.port_id)
                  IN  IF Len(fp) = Len(mem.port_names)
                      THEN NewPortgroupFromMem(S, mem, Mode(p), fp)
                      ELSE MemoryScan(S, mem, i + 1, fp)
             ELSE IF founded_ports # <<>> THEN S
             ELSE MemoryScan(S, mem, i + 1, founded_ports)

RECURSIVE MemoryPass(_, _, _)
\* sort_ports_in_canvas: add the missing portgroups of the memory, those
\* with above_metadatas = above
MemoryPass(S, above, m) ==
    IF m > Len(S.portgroups_memory) \/ S.raised THEN S
    ELSE LET mem == S.portgroups_memory[m]
         IN  IF mem.above_metadatas # above \/ mem.group_name # S.group.name
             THEN MemoryPass(S, above, m + 1)
             ELSE MemoryPass(MemoryScan(S, mem, 1, <<>>), above, m + 1)

RECURSIVE MetadataRuns(_, _, _)
\* sort_ports_in_canvas: portgroups_mdata, the list built from the tagged ports
MetadataRuns(S, i, runs) ==
    IF i > Len(S.ports) THEN runs
    ELSE LET p == S.port[S.ports[i]]
             n == Len(runs)
         IN  IF p.mdata_portgroup = "" \/ p.portgroup_id # 0
             THEN MetadataRuns(S, i + 1, runs)
             ELSE IF /\ n > 0
                     /\ runs[n].pg_name = p.mdata_portgroup
                     /\ runs[n].port_type = p.type
                     /\ runs[n].port_mode = Mode(p)
             THEN MetadataRuns(S, i + 1,
                               [runs EXCEPT ![n].ports = Append(@, p.port_id)])
             ELSE MetadataRuns(S, i + 1,
                               Append(runs, [pg_name |-> p.mdata_portgroup,
                                             port_type |-> p.type,
                                             port_mode |-> Mode(p),
                                             ports |-> <<p.port_id>>]))

RECURSIVE MetadataPass(_, _, _)
\* sort_ports_in_canvas: a portgroup for every run of two ports or more
MetadataPass(S, runs, r) ==
    IF r > Len(runs) THEN S
    ELSE IF Len(runs[r].ports) < 2 THEN MetadataPass(S, runs, r + 1)
    ELSE MetadataPass(NewPortgroup(S, runs[r].port_mode, runs[r].ports, runs[r].pg_name),
                      runs, r + 1)

\* Regroup with the last memory pass run before the metadata pass
RegroupMemoryFirst(S) ==
    LET S1 == SortPorts(S)
        S2 == RemovePortgroups(S1, PortgroupsToRemove(S1), 1)
        S3 == MemoryPass(S2, TRUE, 1)
        S4 == IF S3.raised THEN S3 ELSE MemoryPass(S3, FALSE, 1)
    IN  IF S4.raised THEN S4 ELSE MetadataPass(S4, MetadataRuns(S4, 1, <<>>), 1)

\* sort_ports_in_canvas: from the sort of the ports to the last memory pass
Regroup(S) ==
    LET S1 == SortPorts(S)
        S2 == RemovePortgroups(S1, PortgroupsToRemove(S1), 1)
        S3 == MemoryPass(S2, TRUE, 1)
        S4 == IF S3.raised THEN S3 ELSE MetadataPass(S3, MetadataRuns(S3, 1, <<>>), 1)
    IN  IF S4.raised THEN S4 ELSE MemoryPass(S4, FALSE, 1)

\* sort_ports_in_canvas leaving the optimized mode whatever it found
SortPortsInCanvasAlwaysLeave(S) ==
    LET S1 == OptimizeOperation(S, TRUE)
        conn_list == ConnList(S1)
        S2 == IF S1.very_fast_operation THEN S1
              ELSE ForEachPort(
                     ForEachPortgroup(
                       ForEachConnection(S1, conn_list, "remove_from_canvas", 1),
                       "remove_from_canvas", 1),
                     "remove_from_canvas", 1)
        S3 == Regroup(S2)
        S4 == IF S3.very_fast_operation THEN S3
              ELSE ForEachConnection(
                     ForEachPortgroup(ForEachPort(S3, "add_to_canvas", 1),
                                      "add_to_canvas", 1),
                     conn_list, "add_to_canvas", 1)
    IN  IF S3.raised THEN S3
        ELSE GroupRedrawInCanvas(OptimizeOperation(S4, FALSE))

\* Group.sort_ports_in_canvas
SortPortsInCanvas(S) ==
    LET already_optimized == S.optimized_operation
        S1 == OptimizeOperation(S, TRUE)
        conn_list == ConnList(S1)
        S2 == IF S1.very_fast_operation THEN S1
              ELSE ForEachPort(
                     ForEachPortgroup(
                       ForEachConnection(S1, conn_list, "remove_from_canvas", 1),
                       "remove_from_canvas", 1),
                     "remove_from_canvas", 1)
        S3 == Regroup(S2)
        S4 == IF S3.very_fast_operation THEN S3
              ELSE ForEachConnection(
                     ForEachPortgroup(ForEachPort(S3, "add_to_canvas", 1),
                                      "add_to_canvas", 1),
                     conn_list, "add_to_canvas", 1)
    IN  IF S3.raised THEN S3
        ELSE IF ~already_optimized
        THEN GroupRedrawInCanvas(OptimizeOperation(S4, FALSE))
        ELSE S4

----------------------------------------------------------------------------
(* GroupPos *)

\* an empty dict
EmptyDict == [k \in {} |-> 0]

\* GroupPos(): the class defaults and __init__
NewGroupPos ==
    [port_types_view |-> 0, group_name |-> "", null_zone |-> "", in_zone |-> "",
     out_zone |-> "", null_xy |-> <<0, 0>>, in_xy |-> <<0, 0>>, out_xy |-> <<0, 0>>,
     flags |-> 0, layout_modes |-> EmptyDict, fully_set |-> TRUE]

\* a Python value with its type: int, bool (value 0 or 1), str, tuple, list
\* (value: a sequence of values), dict (value: a sequence of key/value items),
\* none
Val(type, value) == [type |-> type, value |-> value]

\* isinstance(v, int): bool is a subclass of int
IsInt(v) == v.type \in {"int", "bool"}

\* GroupPos._is_point accepting lists only
IsPointListOnly(v) ==
    /\ v.type = "list"
    /\ Len(v.value) = 2
    /\ \A i \in 1..2 : IsInt(v.value[i])

\* GroupPos._is_point
IsPoint(v) ==
    /\ v.type \in {"list", "tuple"}
    /\ Len(v.value) = 2
    /\ \A i \in 1..2 : IsInt(v.value[i])

\* tuple(value) of a point, the coordinates as plain integers
PointOf(v) == <<v.value[1].value, v.value[2].value>>

\* the keys of a dict in increasing order
RECURSIVE SortedKeys(_)
SortedKeys(keys) ==
    IF keys = {} THEN <<>>
    ELSE LET k == CHOOSE x \in keys : \A y \in keys : x <= y
         IN  <<k>> \o SortedKeys(keys \ {k})

\* GroupPos.as_serializable_dict
AsSerializableDict(g) ==
    [port_types_view |-> Val("int", g.port_types_view),
     group_name |-> Val("str", g.group_name),
     null_zone |-> Val("str", g.null_zone),
     in_zone |-> Val("str", g.in_zone),
     out_zone |-> Val("str", g.out_zone),
     null_xy |-> Val("tuple", <<Val("int", g.null_xy[1]), Val("int", g.null_xy[2])>>),
     in_xy |-> Val("tuple", <<Val("int", g.in_xy[1]), Val("int", g.in_xy[2])>>),
     out_xy |-> Val("tuple", <<Val("int", g.out_xy[1]), Val("int", g.out_xy[2])>>),
     flags |-> Val("int", g.flags),
     layout_modes |->
        Val("dict", LET ks == SortedKeys(DOMAIN g.layout_modes)
                    IN  [i \in 1..Len(ks) |->
                            [key |-> Val("int", ks[i]),
                             value |-> Val("int", g.layout_modes[ks[i]])]])]

\* int(v) succeeds: an int, a bool, or a str of digits
CanInt(v) ==
    \/ IsInt(v)
    \/ v.type = "str" /\ v.value # <<>> /\ \A i \in 1..Len(v.value) : IsDigit(v.value[i])

\* int(v)
IntOf(v) == IF IsInt(v) THEN v.value ELSE ParseInt(v.value)

RECURSIVE LoadLayoutModes(_, _, _)
\* from_serialized_dict: the loop over layout_modes.items(); an item whose
\* conversion raises is skipped (PortMode, a flag type of patchcanvas, takes
\* any key that int() converts)
LoadLayoutModes(items, i, modes) ==
    IF i > Len(items) THEN modes
    ELSE LET it == items[i]
         IN  IF CanInt(it.key) /\ CanInt(it.value) /\ IntOf(it.value) \in {LAYOUT_AUTO, LAYOUT_HIGH, LAYOUT_LARGE}
             THEN LoadLayoutModes(items, i + 1,
                     [k \in DOMAIN modes \cup {IntOf(it.key)} |->
                         IF k = IntOf(it.key) THEN IntOf(it.value) ELSE modes[k]])
             ELSE LoadLayoutModes(items, i + 1, modes)

\* GroupPos.from_serialized_dict: [raised, gpos]; a missing key raises KeyError
FromSerializedDict(src) ==
    IF ~({"port_types_view", "group_name", "null_zone", "in_zone", "out_zone",
          "null_xy", "in_xy", "out_xy", "flags", "layout_modes"}
            \subseteq DOMAIN src)
    THEN [raised |-> TRUE, gpos |-> NewGroupPos]
    ELSE
    LET g0 == NewGroupPos
        g1 == IF IsInt(src.port_types_view)
              THEN [g0 EXCEPT !.port_types_view = BitAnd(src.port_types_view.value, VIEW_ALL)]
              ELSE g0
        g2 == IF src.group_name.type = "str"
              THEN [g1 EXCEPT !.group_name = src.group_name.value] ELSE g1
        g3 == IF src.null_zone.type = "str"
              THEN [g2 EXCEPT !.null_zone = src.null_zone.value] ELSE g2
        g4 == IF src.in_zone.type = "str"
              THEN [g3 EXCEPT !.in_zone = src.in_zone.value] ELSE g3
        g5 == IF src.out_zone.type = "str"
              THEN [g4 EXCEPT !.out_zone = src.out_zone.value] ELSE g4
        g6 == IF IsPoint(src.null_xy)
              THEN [g5 EXCEPT !.null_xy = PointOf(src.null_xy)] ELSE g5
        g7 == IF IsPoint(src.in_xy)
              THEN [g6 EXCEPT !.in_xy = PointOf(src.in_xy)] ELSE g6
        g8 == IF IsPoint(src.out_xy)
              THEN [g7 EXCEPT !.out_xy = PointOf(src.out_xy)] ELSE g7
        g9 == IF IsInt(src.flags)
              THEN [g8 EXCEPT !.flags = src.flags.value] ELSE g8
        g10 == IF src.layout_modes.type = "dict"
               THEN [g9 EXCEPT !.layout_modes =
                                   LoadLayoutModes(src.layout_modes.value, 1, EmptyDict)]
               ELSE g9
    IN  [raised |-> FALSE, gpos |-> g10]

\* GroupPos.set_layout_mode
GroupPosSetLayoutMode(g, port_mode, layout_mode) ==
    [g EXCEPT !.layout_modes =
        [k \in DOMAIN @ \cup {port_mode} |-> IF k = port_mode THEN layout_mode ELSE @[k]]]

\* GroupPos.get_layout_mode
GroupPosGetLayoutMode(g, port_mode) ==
    IF port_mode \in DOMAIN g.layout_modes THEN g.layout_modes[port_mode] ELSE LAYOUT_AUTO

\* Group.set_layout_mode
GroupSetLayoutMode(S, port_mode, layout_mode) ==
    LET S1 == [S EXCEPT !.current_position =
                            GroupPosSetLayoutMode(@, port_mode, layout_mode)]
    IN  IF ~S1.group.in_canvas THEN S1
        ELSE Emit(S1, "set_group_layout_mode", S.group.group_id, <<port_mode, layout_mode>>)

\* Group.wrap_box
GroupWrapBox(S, port_mode, yesno) ==
    LET wrap_flag == IF port_mode = MODE_INPUT THEN WRAPPED_INPUT
                     ELSE IF port_mode = MODE_OUTPUT THEN WRAPPED_OUTPUT
                     ELSE BitOr(WRAPPED_OUTPUT, WRAPPED_INPUT)
        S1 == [S EXCEPT !.current_position.flags =
                            IF yesno THEN BitOr(@, wrap_flag) ELSE @ - BitAnd(@, wrap_flag)]
    IN  IF ~S1.group.in_canvas THEN S1
        ELSE Emit(S1, "wrap_group_box", S.group.group_id, <<port_mode, yesno>>)

----------------------------------------------------------------------------
(* PortgroupMem *)

\* Group.set_group_position, the flags compared being those of the new position
GroupSetGroupPositionExAfter(S, group_position, view_change) ==
    IF ~S.group.in_canvas THEN S
    ELSE
    LET id == S.group.group_id
        flags == group_position.flags
        prevent_overlap == ~view_change
        S1 == [S EXCEPT !.current_position = group_position]
        S2 == Emit(S1, "move_group_boxes", id,
                   <<group_position.null_xy, group_position.in_xy, group_position.out_xy>>)
    IN  IF BitAnd(flags, SPLITTED) # 0
        THEN Emit(Emit(S2, "wrap_group_box", id,
                       <<MODE_INPUT, BitAnd(flags, WRAPPED_INPUT) # 0, prevent_overlap>>),
                  "wrap_group_box", id,
                  <<MODE_OUTPUT, BitAnd(flags, WRAPPED_OUTPUT) # 0, prevent_overlap>>)
        ELSE Emit(S2, "wrap_group_box", id,
                  <<MODE_NULL, BitAnd(flags, BitOr(WRAPPED_INPUT, WRAPPED_OUTPUT)) # 0,
                    prevent_overlap>>)

\* Group.set_group_position
GroupSetGroupPosition(S, group_position, view_change) ==
    IF ~S.group.in_canvas THEN S
    ELSE
    LET id == S.group.group_id
        ex_gpos_flags == S.current_position.flags
        gpos == group_position
        S1 == [S EXCEPT !.current_position = group_position]
        modes == SelectSeq(<<MODE_NULL, MODE_INPUT, MODE_OUTPUT, MODE_BOTH>>,
                          LAMBDA k : k \in DOMAIN gpos.layout_modes)
        LayoutModes[i \in 0..Len(modes)] ==
            IF i = 0 THEN S1
            ELSE Emit(LayoutModes[i - 1], "set_group_layout_mode", id,
                      <<modes[i], gpos.layout_modes[modes[i]]>>)
        S2 == Emit(LayoutModes[Len(modes)], "move_group_boxes", id,
                   <<gpos.null_xy, gpos.in_xy, gpos.out_xy>>)
        prevent_overlap == ~view_change
    IN  IF BitAnd(gpos.flags, SPLITTED) # 0
        THEN LET S3 == IF BitAnd(ex_gpos_flags, SPLITTED) = 0
                       THEN Emit(S2, "split_group", id, <<>>) ELSE S2
                 S4 == Emit(S3, "wrap_group_box", id,
                            <<MODE_INPUT, BitAnd(gpos.flags, WRAPPED_INPUT) # 0,
                              prevent_overlap>>)
             IN  Emit(S4, "wrap_group_box", id,
                      <<MODE_OUTPUT, BitAnd(gpos.flags, WRAPPED_OUTPUT) # 0,
                        prevent_overlap>>)
        ELSE LET S3 == Emit(S2, "wrap_group_box", id,
                            <<MODE_NULL,
                              BitAnd(gpos.flags, BitOr(WRAPPED_INPUT, WRAPPED_OUTPUT)) # 0,
                              prevent_overlap>>)
             IN  IF BitAnd(ex_gpos_flags, SPLITTED) # 0
                 THEN Emit(S3, "animate_before_join", id, <<>>) ELSE S3

\* PortgroupMem.as_serializable_dict
MemAsSerializableDict(mem) ==
    [group_name |-> Val("str", mem.group_name),
     port_type |-> Val("int", mem.port_type),
     port_mode |-> Val("int", mem.port_mode),
     port_names |-> Val("list", [i \in 1..Len(mem.port_names) |->
                                    Val("str", mem.port_names[i])]),
     above_metadatas |-> Val("bool", IF mem.above_metadatas THEN 1 ELSE 0)]

\* PortgroupMem.from_serialized_dict: the five assignments of the one try
\* block, the first that raises ending them all (PortType and PortMode, flag
\* types of patchcanvas, take an int and raise on a str or None)
MemFromSerializedDict(src) ==
    LET Str(v) == IF v.type = "str" THEN v.value
                  ELSE IF v.type = "none" THEN <<"N", "o", "n", "e">>
                  ELSE IF v.type = "bool" THEN (IF v.value = 1 THEN <<"T", "r", "u", "e">> ELSE <<"F", "a", "l", "s", "e">>)
                  ELSE IntToStr(v.value)
        Bool(v) == IF v.type \in {"int", "bool"} THEN v.value # 0
                   ELSE IF v.type = "none" THEN FALSE
                   ELSE v.value # <<>>
        m0 == [group_name |-> <<>>, port_type |-> TYPE_NULL, port_mode |-> MODE_NULL,
               port_names |-> <<>>, above_metadatas |-> FALSE]
        m1 == [m0 EXCEPT !.group_name = Str(src.group_name)]
        m2 == [m1 EXCEPT !.port_type = src.port_type.value]
        m3 == [m2 EXCEPT !.port_mode = src.port_mode.value]
        m4 == [m3 EXCEPT !.port_names =
                  IF src.port_names.type = "str"
                  THEN [i \in 1..Len(src.port_names.value) |-> <<src.port_names.value[i]>>]
                  ELSE [i \in 1..Len(src.port_names.value) |->
                            Str(src.port_names.value[i])]]
        m5 == [m4 EXCEPT !.above_metadatas = Bool(src.above_metadatas)]
    IN  IF "group_name" \notin DOMAIN src THEN m0
        ELSE IF "port_type" \notin DOMAIN src \/ ~IsInt(src.port_type) THEN m1
        ELSE IF "port_mode" \notin DOMAIN src \/ ~IsInt(src.port_mode) THEN m2
        ELSE IF \/ "port_names" \notin DOMAIN src
                \/ src.port_names.type \notin {"list", "tuple", "str"} THEN m3
        ELSE IF "above_metadatas" \notin DOMAIN src THEN m4
        ELSE m5

\* PortgroupMem.has_a_common_port_with
HasACommonPortWith(a, b) ==
    IF a.port_type # b.port_type \/ a.port_mode # b.port_mode
       \/ a.group_name # b.group_name
    THEN FALSE
    ELSE \E i \in 1..Len(a.port_names) : InSeq(a.port_names[i], b.port_names)

----------------------------------------------------------------------------
(* The inputs: what the sound server announces and what the user remembers *)

GroupName == <<"M", "y", "A", "p", "p">>

Template(short, type, flags, order, mdata) ==
    [full_name |-> GroupName \o <<":">> \o short, type |-> type, flags |-> flags,
     order |-> order, mdata_portgroup |-> mdata, prevent_stereo |-> FALSE]

\* the ports the sound server may announce
PortCatalog ==
    <<Template(<<"o", "u", "t", "_", "1">>, AUDIO_JACK, IS_OUTPUT, NoOrder, ""),
      Template(<<"o", "u", "t", "_", "2">>, AUDIO_JACK, IS_OUTPUT, NoOrder, ""),
      Template(<<"a", "u", "x">>, AUDIO_JACK, IS_OUTPUT, NoOrder, ""),
      Template(<<"m", "i", "d", "i", "_", "i", "n">>, MIDI_JACK, IS_INPUT, NoOrder, ""),
      Template(<<"i", "n", "_", "L">>, AUDIO_JACK, IS_INPUT, NoOrder, "grp"),
      Template(<<"i", "n", "_", "R">>, AUDIO_JACK, IS_INPUT, NoOrder, "grp"),
      Template(<<"i", "n", "_", "C">>, AUDIO_JACK, IS_INPUT, NoOrder, "grp"),
      Template(<<"i", "n", "_", "L">>, AUDIO_JACK, IS_INPUT, NoOrder, ""),
      Template(<<"i", "n", "_", "R">>, AUDIO_JACK, IS_INPUT, NoOrder, ""),
      Template(<<"o", "u", "t", "_", "1">>, AUDIO_JACK, IS_OUTPUT, <<2>>, ""),
      Template(<<"o", "u", "t", "_", "2">>, AUDIO_JACK, IS_OUTPUT, <<1>>, ""),
      Template(<<"a", "u", "x">>, AUDIO_JACK, IS_OUTPUT, <<1>>, ""),
      Template(<<"c", "v", "_", "1">>, AUDIO_JACK, IS_OUTPUT + IS_CONTROL_VOLTAGE, NoOrder, ""),
      Template(<<"1", "2">>, AUDIO_JACK, IS_OUTPUT, NoOrder, ""),
      Template(<<>>, AUDIO_JACK, IS_OUTPUT, NoOrder, ""),
      Template(<<"m", "i", "d", "i", "_", "o", "u", "t">>, MIDI_JACK, IS_OUTPUT, NoOrder, ""),
      Template(<<"v", "i", "d", "e", "o", "_", "o", "u", "t">>, TYPE_VIDEO, IS_OUTPUT, NoOrder, ""),
      Template(<<"c", "v", "_", "i", "n">>, AUDIO_JACK, IS_INPUT + IS_CONTROL_VOLTAGE, NoOrder, ""),
      Template(<<"v", "i", "d", "e", "o", "_", "i", "n">>, TYPE_VIDEO, IS_INPUT, NoOrder, ""),
      [Template(<<>>, MIDI_JACK, IS_OUTPUT, NoOrder, "")
          EXCEPT !.full_name = <<"a", "2", "j", ":", "F", "o", "o", " ", "B", "a", "r", ":", " ", "B", "a", "r", "_", "i", "n", " ", "1">>],
      [Template(<<>>, MIDI_JACK, IS_OUTPUT, NoOrder, "")
          EXCEPT !.full_name = <<"M", "i", "d", "i", "-", "B", "r", "i", "d", "g", "e", ":", "C", "l", "i", "e", "n", "t", ")", " ", "c", "a", "p", "t", "u", "r", "e", "_", "1">>],
      [Template(<<>>, MIDI_JACK, IS_OUTPUT, NoOrder, "")
          EXCEPT !.full_name = <<"M", "i", "d", "i", "-", "B", "r", "i", "d", "g", "e", ":", "C", "l", "i", "e", "n", "t", ":", " ", "p", "l", "a", "y", "b", "a", "c", "k", "_", "1">>],
      [Template(<<>>, MIDI_JACK, IS_OUTPUT, NoOrder, "")
          EXCEPT !.full_name = <<"M", "i", "d", "i", "-", "B", "r", "i", "d", "g", "e", ":", "A", ":", " ", "b", ")", " ", "c">>],
      [Template(<<>>, MIDI_JACK, IS_OUTPUT, NoOrder, "")
          EXCEPT !.full_name = <<"a", "2", "j", ":", "F", "o", "o", ":", " ", "a", ":", " ", "b">>],
      [Template(<<>>, MIDI_JACK, IS_OUTPUT, NoOrder, "")
          EXCEPT !.full_name = <<"a", "2", "j", ":", "p", "l", "a", "i", "n">>],
      [Template(<<>>, MIDI_JACK, IS_OUTPUT, NoOrder, "")
          EXCEPT !.full_name = <<"M", "i", "d", "i", "-", "B", "r", "i", "d", "g", "e", ":", "p", "l", "a", "i", "n">>],
      [Template(<<>>, MIDI_JACK, IS_OUTPUT, NoOrder, "")
          EXCEPT !.full_name = <<"s", "y", "s", ":", "o", "u", "t", ":", " ", "1">>],
      [Template(<<>>, MIDI_JACK, IS_OUTPUT, NoOrder, "")
          EXCEPT !.full_name = <<"a", "2", "j", ":", " ", "x">>],
      [Template(<<>>, MIDI_JACK, IS_OUTPUT, NoOrder, "")
          EXCEPT !.full_name = <<"n", "o", "C", "o", "l", "o", "n">>],
      [Template(<<>>, MIDI_JACK, IS_OUTPUT, NoOrder, "")
          EXCEPT !.full_name = <<"s", "y", "s", ":", "a", ")", " ", "b">>],
      [Template(<<>>, MIDI_JACK, IS_OUTPUT, NoOrder, "")
          EXCEPT !.full_name = <<"M", "i", "d", "i", "-", "B", "r", "i", "d", "g", "e", ":", "A", ")", " ", "b", ":", " ", "c">>],
      Template(<<"o", "u", "t">>, AUDIO_JACK, IS_OUTPUT, NoOrder, ""),
      Template(<<"o", "u", "t", "_", "3">>, AUDIO_JACK, IS_OUTPUT, NoOrder, ""),
      Template(<<"o", "u", "t", "L", "2">>, AUDIO_JACK, IS_OUTPUT, NoOrder, ""),
      Template(<<"o", "u", "t", "R", "1">>, AUDIO_JACK, IS_OUTPUT, NoOrder, ""),
      Template(<<"o", "u", "t", "R", "2">>, AUDIO_JACK, IS_OUTPUT, NoOrder, ""),
      [Template(<<>>, MIDI_JACK, IS_OUTPUT, NoOrder, "")
          EXCEPT !.full_name = <<"a", "2", "j", ":", "K", " ", "(", "c", "a", "p", "t", "u", "r", "e", ")", ":", " ", "K", " ", "P", "o", "r", "t", "-", "0">>],
      [Template(<<>>, MIDI_JACK, IS_OUTPUT, NoOrder, "")
          EXCEPT !.full_name = <<"a", "2", "j", ":", "K", " ", "(", "c", "a", "p", "t", "u", "r", "e", ")", ":", " ", "K", " ", "P", "o", "r", "t", "-", "1">>],
      [Template(<<>>, MIDI_JACK, IS_OUTPUT, NoOrder, "")
          EXCEPT !.full_name = <<"a", "2", "j", ":", "J", " ", "(", "c", "a", "p", "t", "u", "r", "e", ")", ":", " ", "J", " ", "P", "o", "r", "t", "-", "1">>],
      [Template(<<>>, MIDI_JACK, IS_OUTPUT, NoOrder, "")
          EXCEPT !.full_name = <<"a", "2", "j", ":", "K", " ", "(", "c", "a", "p", "t", "u", "r", "e", ")", ":", " ", "K", " ", "M", "I", "D", "I", " ", "1">>],
      [Template(<<>>, MIDI_JACK, IS_OUTPUT, NoOrder, "")
          EXCEPT !.full_name = <<"a", "2", "j", ":", "K", " ", "(", "c", "a", "p", "t", "u", "r", "e", ")", ":", " ", "K", " ", "M", "I", "D", "I", " ", "2">>],
      [Template(<<>>, MIDI_JACK, IS_OUTPUT, NoOrder, "")
          EXCEPT !.full_name = <<"a", "2", "j", ":", "J", " ", "(", "c", "a", "p", "t", "u", "r", "e", ")", ":", " ", "J", " ", "M", "I", "D", "I", " ", "2">>],
      [Template(<<>>, MIDI_JACK, IS_INPUT, NoOrder, "")
          EXCEPT !.full_name = <<"a", "2", "j", ":", "K", " ", "(", "p", "l", "a", "y", "b", "a", "c", "k", ")", ":", " ", "K", " ", "M", "I", "D", "I", " ", "1">>],
      [Template(<<"o", "u", "t", "_", "1">>, AUDIO_JACK, IS_OUTPUT, NoOrder, "") EXCEPT !.prevent_stereo = TRUE],
      [Template(<<"o", "u", "t", "_", "2">>, AUDIO_JACK, IS_OUTPUT, NoOrder, "") EXCEPT !.prevent_stereo = TRUE]>>

Mem(type, mode, names, above) ==
    [group_name |-> GroupName, port_type |-> type, port_mode |-> mode,
     port_names |-> names, above_metadatas |-> above]

\* the remembered portgroups the user may have
MemCatalog ==
    <<Mem(AUDIO_JACK, MODE_OUTPUT, <<<<"a", "u", "x">>, <<"o", "u", "t", "_", "2">>>>, FALSE),
      Mem(AUDIO_JACK, MODE_INPUT, <<<<"i", "n", "_", "L">>, <<"i", "n", "_", "R">>>>, FALSE),
      Mem(AUDIO_JACK, MODE_INPUT, <<<<"i", "n", "_", "L">>, <<"i", "n", "_", "R">>>>, TRUE),
      Mem(AUDIO_JACK, MODE_OUTPUT, <<<<"o", "u", "t", "_", "2">>>>, FALSE),
      Mem(AUDIO_JACK, MODE_OUTPUT, <<>>, FALSE),
      Mem(AUDIO_JACK, MODE_OUTPUT, <<<<"o", "u", "t", "_", "1">>, <<"a", "u", "x">>>>, FALSE),
      Mem(AUDIO_JACK, MODE_OUTPUT, <<<<"o", "u", "t", "_", "1">>, <<"c", "v", "_", "1">>>>, FALSE)>>

\* a run: the ports that may arrive, the memory loaded at start, and the
\* remembered portgroups the user may add
Scenario(prts, mem_init, mems) == [ports |-> prts, mem_init |-> mem_init, mems |-> mems]

----------------------------------------------------------------------------
(* History variables *)

PortCanvasOps == {"Port.add_to_canvas", "Port.remove_from_canvas",
                  "Port.rename_in_canvas", "Port.select_in_canvas"}

\* the operations whose immediate repetition is recorded in prev
RepeatableOps == {"Port.add_to_canvas", "Port.remove_from_canvas"}

----------------------------------------------------------------------------
(* Initial states *)

\* Group.__init__
NewGroup(name) ==
    [group_id |-> 1, name |-> name, display_name |-> name,
     in_canvas |-> FALSE, is_hardware |-> FALSE, client_icon |-> <<>>,
     mdata_icon |-> <<>>, a2j_group |-> FALSE, has_gui |-> FALSE,
     gui_visible |-> FALSE]

\* Group.__init__ and the manager's fields, for a scenario and a GroupPos
InitGroup(sc, gpos, g) ==
    /\ ports = <<>>
    /\ port = EmptyDict
    /\ portgroups = <<>>
    /\ connections = <<>>
    /\ portgroups_memory = [i \in 1..Len(sc.mem_init) |-> MemCatalog[sc.mem_init[i]]]
    /\ next_port_id = 1
    /\ next_portgroup_id = 1
    /\ next_connection_id = 1
    /\ group = g
    /\ current_position = gpos
    /\ very_fast_operation = FALSE
    /\ optimized_operation = FALSE
    /\ port_types_view = VIEW_ALL
    /\ canvas = [ports |-> EmptyDict, portgroups |-> EmptyDict,
                 connections |-> EmptyDict, group |-> 0]
    /\ calls = <<>>
    /\ raised = FALSE
    /\ avail = [ports |-> sc.ports, mems |-> sc.mems]
    /\ last = [op |-> "none", arg |-> <<>>, was |-> <<>>]
    /\ prev = [op |-> "none", arg |-> <<>>, calls |-> <<>>, was |-> <<>>]
    /\ built = <<>>
    /\ serialized = <<>>
    /\ loaded = <<>>
    /\ answer = <<>>
    /\ heap = [objs |-> <<[gpos EXCEPT !.layout_modes = 1],
                          [NewGroupPos EXCEPT !.layout_modes = 2]>>,
               dicts |-> <<gpos.layout_modes, EmptyDict>>]

\* the Group named MyApp
InitWith(sc, gpos) == InitGroup(sc, gpos, NewGroup(GroupName))

\* the GroupPos the manager makes for a group it has no position for
FreshGroupPos == [NewGroupPos EXCEPT !.group_name = "MyApp", !.fully_set = FALSE]

Init ==
    \E sc \in
        {Scenario({1, 2, 3, 4}, <<>>, {1, 4}),
         Scenario({1, 2, 3}, <<1>>, {}),
         Scenario({5, 6, 7, 8, 9}, <<2>>, {}),
         Scenario({5, 6, 7, 8, 9}, <<3>>, {}),
         Scenario({4, 10, 11, 12}, <<>>, {}),
         Scenario({1, 14, 15}, <<>>, {5}),
         Scenario({2, 3, 10}, <<>>, {})} :
        InitWith(sc, FreshGroupPos)

InitCanvas == \E sc \in {Scenario({1, 2, 8}, <<>>, {})} : InitWith(sc, FreshGroupPos)

\* a Group to get an output port and an input port, of any type and subtype
InitConnection ==
    \E o \in {1, 13, 16, 17}, i \in {4, 8, 18, 19} :
        InitWith(Scenario({o, i}, <<>>, {}), FreshGroupPos)

\* a Group to get MIDI ports of ALSA bridges, or ports with other names
InitNames ==
    \E first \in {20, 23, 26, 29} :
        InitWith(Scenario(first..(first + 2), <<>>, {}), FreshGroupPos)

\* a Group to get numbered output ports, with or without a remembered
\* portgroup, or with a port flagged prevent_stereo
InitStereo ==
    \E sc \in {Scenario({1, 2, 32, 33}, <<>>, {}), Scenario(34..36, <<>>, {}),
               Scenario({1, 2, 3}, <<1>>, {}), Scenario({1, 2, 3}, <<6>>, {}),
               Scenario({1, 45}, <<>>, {}), Scenario({44, 2}, <<>>, {})} :
        InitWith(sc, FreshGroupPos)

\* a Group of any name, hardware or not, with or without icons
InitBox ==
    \E name \in {GroupName, <<"a", "2", "j">>, <<"P", "u", "l", "s", "e", "A", "u", "d", "i", "o", " ", "J", "A", "C", "K", " ", "S", "i", "n", "k">>,
                 <<"P", "u", "l", "s", "e", "A", "u", "d", "i", "o", " ", "J", "A", "C", "K", " ", "S", "o", "u", "r", "c", "e">>, <<"B", "u", "i", "l", "t", "-", "i", "n", " ", "A", "u", "d", "i", "o", " ", "M", "o", "n", "i", "t", "o", "r">>,
                 <<"C", "a", "l", "f", ".", "S", "t", "u", "d", "i", "o">>},
       hardware \in BOOLEAN, a2j \in BOOLEAN,
       client \in {<<>>, <<"a", "p", "p">>}, mdata \in {<<>>, <<"m", "e", "t", "a">>} :
        InitGroup(Scenario({}, <<>>, {}), FreshGroupPos,
                  [NewGroup(name) EXCEPT !.is_hardware = hardware, !.a2j_group = a2j,
                                         !.client_icon = client, !.mdata_icon = mdata])

\* the Group of the a2j bridge, to get its MIDI ports
InitA2j == InitGroup(Scenario(37..43, <<>>, {}), FreshGroupPos, NewGroup(<<"a", "2", "j">>))

\* a Group to get two outputs and an input, or a regular and a CV output
\* that a remembered portgroup names
InitSort ==
    \E sc \in {Scenario({1, 2, 8}, <<>>, {}), Scenario({1, 13}, <<7>>, {}),
               Scenario({1, 13}, <<>>, {7})} :
        InitWith(sc, FreshGroupPos)

\* the GroupPos objects the model starts from
InitGroupPos ==
    \E g \in
        {[port_types_view |-> v, group_name |-> n, null_zone |-> z, in_zone |-> "",
          out_zone |-> "out", null_xy |-> xy, in_xy |-> <<0, 0>>, out_xy |-> <<12, 40>>,
          flags |-> f, layout_modes |-> lm, fully_set |-> fs] :
            v \in {VIEW_AUDIO + VIEW_MIDI, VIEW_ALL},
            n \in {"MyApp"},
            z \in {"", "zone"},
            xy \in {<<0, 0>>, <<-5, 7>>},
            f \in {0, SPLITTED + HAS_BEEN_SPLITTED + WRAPPED_INPUT},
            lm \in {EmptyDict,
                    (MODE_OUTPUT :> LAYOUT_HIGH) @@ (MODE_BOTH :> LAYOUT_LARGE)},
            fs \in BOOLEAN} :
        InitWith(Scenario({}, <<>>, {}), g)

\* a position with or without a wrapped side and a layout mode, next to a
\* GroupPos just constructed
InitCopy ==
    \E f \in {0, WRAPPED_INPUT}, lm \in {EmptyDict, MODE_OUTPUT :> LAYOUT_HIGH} :
        InitWith(Scenario({}, <<>>, {}),
                 [FreshGroupPos EXCEPT !.flags = f, !.layout_modes = lm])

----------------------------------------------------------------------------
(* Actions *)

\* the state after an operation, and the history of the operations
Commit(op, arg, S) ==
    /\ ports' = S.ports
    /\ port' = S.port
    /\ portgroups' = S.portgroups
    /\ connections' = S.connections
    /\ portgroups_memory' = S.portgroups_memory
    /\ next_portgroup_id' = S.next_portgroup_id
    /\ group' = S.group
    /\ current_position' = S.current_position
    /\ very_fast_operation' = S.very_fast_operation
    /\ optimized_operation' = S.optimized_operation
    /\ port_types_view' = S.port_types_view
    /\ canvas' = S.canvas
    /\ calls' = S.calls
    /\ raised' = S.raised
    /\ built' = S.built
    /\ last' = [op |-> op, arg |-> arg,
                was |-> IF op \in RepeatableOps THEN <<port[arg[1]].in_canvas>>
                        ELSE IF op = "sort_ports_in_canvas" THEN <<portgroups>>
                        ELSE <<>>]
    /\ prev' = IF op \in RepeatableOps /\ last.op = op /\ last.arg = arg
               THEN [op |-> last.op, arg |-> last.arg, calls |-> calls,
                     was |-> last.was]
               ELSE [op |-> "none", arg |-> <<>>, calls |-> <<>>, was |-> <<>>]

\* the sound server announces a port: the manager makes the Port, then
\* Group.add_port and Group.check_for_portgroup_on_last_port
Arrive(t) ==
    /\ t \in avail.ports
    /\ next_port_id <= MaxPorts
    /\ Commit("arrive", <<t>>,
              CheckForPortgroupOnLastPort(
                  GroupAddPort(State, NewPort(next_port_id, PortCatalog[t]))))
    /\ next_port_id' = next_port_id + 1
    /\ avail' = [avail EXCEPT !.ports =
                    {u \in @ : PortCatalog[u].full_name # PortCatalog[t].full_name}]
    /\ UNCHANGED <<heap, next_connection_id, serialized, loaded, answer>>

\* the user remembers a portgroup: the manager stores the PortgroupMem in
\* place of those it has a common port with, then Group.portgroup_memory_added
MemoryAdded(m) ==
    /\ m \in avail.mems
    /\ LET mem == MemCatalog[m]
           kept == {i \in 1..Len(portgroups_memory) :
                       ~HasACommonPortWith(portgroups_memory[i], mem)}
           S == [State EXCEPT !.portgroups_memory =
                                  Append(SelectIdx(@, kept, 1), mem)]
       IN  Commit("portgroup_memory_added", <<m>>, PortgroupMemoryAdded(S, mem))
    /\ avail' = [avail EXCEPT !.mems = @ \ {m}]
    /\ UNCHANGED <<heap, next_port_id, next_connection_id, serialized, loaded, answer>>

\* Group.remove_portgroup on one of the Group's portgroups
RemovePortgroup(k) ==
    /\ k \in 1..Len(portgroups)
    /\ Commit("remove_portgroup", <<portgroups[k].portgroup_id>>,
              GroupRemovePortgroup(State, portgroups[k].portgroup_id))
    /\ UNCHANGED <<heap, next_port_id, next_connection_id, avail, serialized, loaded, answer>>

\* Group.remove_port on one of the Group's ports
RemovePort(id) ==
    /\ InSeq(id, ports)
    /\ Commit("remove_port", <<id>>, GroupRemovePort(State, id))
    /\ UNCHANGED <<heap, next_port_id, next_connection_id, avail, serialized, loaded, answer>>

\* Group.remove_all_ports
RemoveAllPorts ==
    /\ ports # <<>>
    /\ Commit("remove_all_ports", <<>>, GroupRemoveAllPorts(State))
    /\ UNCHANGED <<heap, next_port_id, next_connection_id, avail, serialized, loaded, answer>>

\* Connection.shown_in_port_types_view(view), for the connection at position k
Shown(k, view) ==
    /\ k \in 1..Len(connections)
    /\ Commit("shown_in_port_types_view", <<k, view>>, State)
    /\ answer' = <<ShownInPortTypesView(State, connections[k], view)>>
    /\ UNCHANGED <<heap, next_port_id, next_connection_id, avail, serialized, loaded>>

\* the manager enters or leaves its optimized mode
SetOptimized(b) ==
    /\ optimized_operation # b
    /\ Commit("optimize_operation", <<b>>, OptimizeOperation(State, b))
    /\ UNCHANGED <<heap, next_port_id, next_connection_id, avail, serialized, loaded, answer>>

\* Port.short_name(), for the port with this id
AskShortName(id) ==
    /\ id \in DOMAIN port
    /\ Commit("short_name", <<id>>, State)
    /\ answer' = <<ShortName(port[id].full_name)>>
    /\ UNCHANGED <<heap, next_port_id, next_connection_id, avail, serialized, loaded>>

\* the sound server announces a port: the manager makes the Port, then
\* Group.add_port
AddPort(t) ==
    /\ t \in avail.ports
    /\ next_port_id <= MaxPorts
    /\ Commit("add_port", <<t>>, GroupAddPort(State, NewPort(next_port_id, PortCatalog[t])))
    /\ next_port_id' = next_port_id + 1
    /\ avail' = [avail EXCEPT !.ports =
                    {u \in @ : PortCatalog[u].full_name # PortCatalog[t].full_name}]
    /\ UNCHANGED <<heap, next_connection_id, serialized, loaded, answer>>

\* Group.stereo_detection(port), for the port with this id
DetectStereo(id) ==
    /\ InSeq(id, ports)
    /\ LET d == StereoDetection(State, id)
       IN  /\ Commit("stereo_detection", <<id>>, [State EXCEPT !.raised = d.raised])
           /\ answer' = IF d.raised THEN <<>> ELSE <<d.other>>
    /\ UNCHANGED <<heap, next_port_id, next_connection_id, avail, serialized, loaded>>

\* Group._get_box_type_and_icon()
BoxTypeAndIcon ==
    /\ Commit("_get_box_type_and_icon", <<>>, State)
    /\ answer' = GetBoxTypeAndIcon(group)
    /\ UNCHANGED <<heap, next_port_id, next_connection_id, avail, serialized, loaded>>

\* Group.set_client_icon(icon_name, from_metadata)
SetClientIcon(icon_name, from_metadata) ==
    /\ Commit("set_client_icon", <<icon_name, from_metadata>>,
              GroupSetClientIcon(State, icon_name, from_metadata))
    /\ UNCHANGED <<heap, next_port_id, next_connection_id, avail, serialized, loaded, answer>>

\* Group.set_group_position(group_position, view_change)
SetGroupPosition(group_position, view_change) ==
    /\ Commit("set_group_position", <<group_position, view_change>>,
              GroupSetGroupPosition(State, group_position, view_change))
    /\ UNCHANGED <<heap, next_port_id, next_connection_id, avail, serialized, loaded, answer>>

\* PortgroupMem.from_serialized_dict on the stored dictionary of the k-th
\* remembered portgroup: as as_serializable_dict made it, with a key missing,
\* with a key holding None, or with a key holding a value of another type
ReadMem(k) ==
    /\ k <= Len(portgroups_memory)
    /\ \E d \in LET wf == MemAsSerializableDict(portgroups_memory[k])
                IN  {wf}
                    \cup {[f \in DOMAIN wf \ {key} |-> wf[f]] : key \in DOMAIN wf}
                    \cup {[wf EXCEPT ![key] = Val("none", 0)] : key \in DOMAIN wf}
                    \cup {[wf EXCEPT !.group_name = Val("int", 7)],
                          [wf EXCEPT !.port_type = Val("str", <<"a", "u", "d", "i", "o">>)],
                          [wf EXCEPT !.port_mode = Val("str", <<"o", "u", "t">>)],
                          [wf EXCEPT !.port_names = Val("int", 3)],
                          [wf EXCEPT !.port_names = Val("str", <<"a", "b">>)],
                          [wf EXCEPT !.above_metadatas = Val("str", <<"n", "o">>)]} :
        /\ Commit("PortgroupMem.from_serialized_dict", <<d>>, State)
        /\ answer' = <<MemFromSerializedDict(d)>>
    /\ UNCHANGED <<heap, next_port_id, next_connection_id, avail, serialized, loaded>>

\* the a2j bridge announces a port and graceful names are in use: the manager
\* makes the Port, then Group.add_port and Group.graceful_port
AddGraceful(t) ==
    /\ t \in avail.ports
    /\ next_port_id <= MaxPorts
    /\ group.name = <<"a", "2", "j">>
    /\ \E added \in {GroupAddPort(State, NewPort(next_port_id, PortCatalog[t]))} :
        Commit("graceful_port", <<t>>, GracefulPortA2j(added, next_port_id))
    /\ next_port_id' = next_port_id + 1
    /\ avail' = [avail EXCEPT !.ports =
                    {u \in @ : PortCatalog[u].full_name # PortCatalog[t].full_name}]
    /\ UNCHANGED <<heap, next_connection_id, serialized, loaded, answer>>

\* Group.check_for_display_name_on_last_port()
CheckDisplayName ==
    /\ Commit("check_for_display_name_on_last_port", <<>>,
              CheckForDisplayNameOnLastPort(State))
    /\ UNCHANGED <<heap, next_port_id, next_connection_id, avail, serialized, loaded, answer>>

\* Group.add_all_ports_to_canvas()
AddAll ==
    /\ Commit("add_all_ports_to_canvas", <<>>,
              ForEachPortgroup(ForEachPort(State, "add_to_canvas", 1), "add_to_canvas", 1))
    /\ UNCHANGED <<heap, next_port_id, next_connection_id, avail, serialized, loaded, answer>>

\* the user changes the type-view filter: the manager stores it, then
\* Group.change_port_types_view()
ChangeView(v) ==
    /\ port_types_view # v
    /\ Commit("change_port_types_view", <<v>>,
              ChangePortTypesView([State EXCEPT !.port_types_view = v]))
    /\ UNCHANGED <<heap, next_port_id, next_connection_id, avail, serialized, loaded, answer>>

\* Group.sort_ports_in_canvas
Sort ==
    /\ ports # <<>>
    /\ next_portgroup_id <= MaxPortgroups
    /\ Commit("sort_ports_in_canvas", <<>>, SortPortsInCanvas(State))
    /\ UNCHANGED <<heap, next_port_id, next_connection_id, avail, serialized, loaded, answer>>

\* the manager makes a Connection between an output and an input port
Connect(o, i) ==
    /\ next_connection_id <= MaxConnections
    /\ o \in DOMAIN port /\ i \in DOMAIN port
    /\ Mode(port[o]) = MODE_OUTPUT /\ Mode(port[i]) = MODE_INPUT
    /\ Commit("connect", <<o, i>>,
              [State EXCEPT !.connections =
                                Append(@, [connection_id |-> next_connection_id,
                                           port_out |-> o, port_in |-> i,
                                           in_canvas |-> FALSE]),
                            !.canvas.connections = @ @@ (next_connection_id :> 0)])
    /\ next_connection_id' = next_connection_id + 1
    /\ UNCHANGED <<heap, next_port_id, avail, serialized, loaded, answer>>

Frame == UNCHANGED <<heap, next_port_id, next_connection_id, avail, serialized, loaded, answer>>

PortAdd(id) ==
    /\ id \in DOMAIN port
    /\ Commit("Port.add_to_canvas", <<id>>, PortAddToCanvas(State, id))
    /\ Frame

PortRemove(id) ==
    /\ id \in DOMAIN port
    /\ Commit("Port.remove_from_canvas", <<id>>, PortRemoveFromCanvas(State, id))
    /\ Frame

PortRename(id) ==
    /\ id \in DOMAIN port
    /\ Commit("Port.rename_in_canvas", <<id>>, PortRenameInCanvas(State, id))
    /\ Frame

PortSelect(id) ==
    /\ id \in DOMAIN port
    /\ Commit("Port.select_in_canvas", <<id>>, PortSelectInCanvas(State, id))
    /\ Frame

PortgroupAdd(k) ==
    /\ k \in 1..Len(portgroups)
    /\ Commit("Portgroup.add_to_canvas", <<portgroups[k].portgroup_id>>,
              PortgroupAddToCanvas(State, k))
    /\ Frame

PortgroupRemove(k) ==
    /\ k \in 1..Len(portgroups)
    /\ Commit("Portgroup.remove_from_canvas", <<portgroups[k].portgroup_id>>,
              PortgroupRemoveFromCanvas(State, k))
    /\ Frame

ConnectionAdd(k) ==
    /\ k \in 1..Len(connections)
    /\ Commit("Connection.add_to_canvas", <<connections[k].connection_id>>,
              ConnectionAddToCanvas(State, k))
    /\ Frame

ConnectionRemove(k) ==
    /\ k \in 1..Len(connections)
    /\ Commit("Connection.remove_from_canvas", <<connections[k].connection_id>>,
              ConnectionRemoveFromCanvas(State, k))
    /\ Frame

GroupAdd ==
    /\ Commit("Group.add_to_canvas", <<>>, GroupAddToCanvas(State))
    /\ Frame

GroupRemove ==
    /\ Commit("Group.remove_from_canvas", <<>>, GroupRemoveFromCanvas(State))
    /\ Frame

\* the manager sets or clears very_fast_operation
SetVeryFast(b) ==
    /\ very_fast_operation # b
    /\ Commit("very_fast_operation", <<>>, [State EXCEPT !.very_fast_operation = b])
    /\ Frame

\* the user changes the type-view filter
SetView(v) ==
    /\ port_types_view # v
    /\ Commit("port_types_view", <<v>>, [State EXCEPT !.port_types_view = v])
    /\ Frame

\* the malformed dictionaries made of a well-formed one: a key is missing, or
\* holds None, or holds a value of another wrong type
Malformed(d) ==
    {[k \in DOMAIN d \ {key} |-> d[k]] : key \in DOMAIN d}
    \cup {[d EXCEPT ![key] = Val("none", 0)] : key \in DOMAIN d}
    \cup {[d EXCEPT !.port_types_view = Val("str", <<"3">>)],
          [d EXCEPT !.group_name = Val("int", 7)],
          [d EXCEPT !.null_xy = Val("list", <<Val("int", 1), Val("int", 2), Val("int", 3)>>)],
          [d EXCEPT !.in_xy = Val("tuple", <<Val("int", 1), Val("str", <<"2">>)>>)],
          [d EXCEPT !.flags = Val("str", <<"4">>)],
          [d EXCEPT !.layout_modes =
              Val("dict", <<[key |-> Val("str", <<"x">>), value |-> Val("int", 1)],
                            [key |-> Val("str", <<"2">>), value |-> Val("int", 9)],
                            [key |-> Val("str", <<"1">>), value |-> Val("str", <<"2">>)]>>)]}

\* the stored dictionary is replaced by a malformed one (a configuration file
\* edited by hand, or written by another version)
ReadMalformed ==
    /\ serialized = <<AsSerializableDict(current_position)>>
    /\ \E d \in Malformed(serialized[1]) : serialized' = <<d>>
    /\ Commit("malformed_input", <<>>, State)
    /\ UNCHANGED <<heap, next_port_id, next_connection_id, avail, loaded, answer>>

\* GroupPos.as_serializable_dict on the Group's position
Serialize ==
    /\ Commit("as_serializable_dict", <<>>, State)
    /\ serialized' = <<AsSerializableDict(current_position)>>
    /\ UNCHANGED <<heap, next_port_id, next_connection_id, avail, loaded, answer>>

\* GroupPos.from_serialized_dict on the dictionary made last
Deserialize ==
    /\ serialized # <<>>
    /\ LET r == FromSerializedDict(serialized[1])
       IN  /\ Commit("from_serialized_dict", <<>>, [State EXCEPT !.raised = r.raised])
           /\ loaded' = IF r.raised THEN <<>> ELSE <<r.gpos>>
    /\ UNCHANGED <<heap, next_port_id, next_connection_id, avail, serialized, answer>>

\* Group.set_layout_mode
SetLayoutMode(port_mode, layout_mode) ==
    /\ Commit("set_layout_mode", <<port_mode, layout_mode>>,
              GroupSetLayoutMode(State, port_mode, layout_mode))
    /\ Frame

\* Group.wrap_box
WrapBox(port_mode, yesno) ==
    /\ Commit("wrap_box", <<port_mode>>, GroupWrapBox(State, port_mode, yesno))
    /\ Frame

\* GroupPos.copy on the object i: the __dict__ of the new GroupPos is a
\* shallow copy of the __dict__ of the object, its attributes are the
\* objects the attributes of i refer to
Copy(i) ==
    /\ i \in 1..Len(heap.objs)
    /\ Len(heap.objs) < MaxGroupPos
    /\ Commit("GroupPos.copy", <<i>>, State)
    /\ heap' = [heap EXCEPT !.objs = Append(@, heap.objs[i])]
    /\ UNCHANGED <<next_port_id, next_connection_id, avail, serialized, loaded, answer>>

\* GroupPos.eat: the object i takes a shallow copy of the __dict__ of the
\* object other
Eat(i, other) ==
    /\ i \in 1..Len(heap.objs)
    /\ other \in 1..Len(heap.objs)
    /\ Commit("GroupPos.eat", <<i, other>>, State)
    /\ heap' = [heap EXCEPT !.objs[i] = heap.objs[other]]
    /\ UNCHANGED <<next_port_id, next_connection_id, avail, serialized, loaded, answer>>

\* GroupPos.set_layout_mode on the object i: the item is assigned in the
\* dict object its layout_modes attribute refers to
PosSetLayoutMode(i, port_mode, layout_mode) ==
    /\ i \in 1..Len(heap.objs)
    /\ Commit("GroupPos.set_layout_mode", <<i, port_mode, layout_mode>>, State)
    /\ heap' = [heap EXCEPT !.dicts[heap.objs[i].layout_modes] =
                    GroupPosSetLayoutMode([layout_modes |-> @], port_mode,
                                          layout_mode).layout_modes]
    /\ UNCHANGED <<next_port_id, next_connection_id, avail, serialized, loaded, answer>>

----------------------------------------------------------------------------
(* Specifications *)

\* port arrivals, the memory and the re-sort
Next ==
    \/ \E t \in 1..Len(PortCatalog) : Arrive(t)
    \/ \E m \in 1..Len(MemCatalog) : MemoryAdded(m)
    \/ \E k \in 1..MaxPorts : RemovePortgroup(k)
    \/ Sort

Spec == Init /\ [][Next]_vars

\* the canvas mirroring of each entity
NextCanvas ==
    \/ \E t \in 1..Len(PortCatalog) : Arrive(t)
    \/ \E o, i \in 1..MaxPorts : Connect(o, i)
    \/ \E id \in 1..MaxPorts : PortAdd(id)
    \/ \E id \in 1..MaxPorts : PortRemove(id)
    \/ \E id \in 1..MaxPorts : PortRename(id)
    \/ \E id \in 1..MaxPorts : PortSelect(id)
    \/ \E k \in 1..MaxPorts : PortgroupAdd(k)
    \/ \E k \in 1..MaxPorts : PortgroupRemove(k)
    \/ \E k \in 1..MaxConnections : ConnectionAdd(k)
    \/ \E k \in 1..MaxConnections : ConnectionRemove(k)
    \/ GroupAdd
    \/ GroupRemove
    \/ \E b \in BOOLEAN : SetVeryFast(b)
    \/ \E v \in {VIEW_ALL, VIEW_MIDI} : SetView(v)

SpecCanvas == InitCanvas /\ [][NextCanvas]_vars

\* the GroupPos of the Group and its serialized form
NextGroupPos ==
    \/ Serialize
    \/ Deserialize
    \/ SetLayoutMode(MODE_INPUT, LAYOUT_LARGE)
    \/ \E b \in BOOLEAN : WrapBox(MODE_OUTPUT, b)

SpecGroupPos == InitGroupPos /\ [][NextGroupPos]_vars

\* the removal of ports and portgroups from a Group shown in the canvas
NextRemove ==
    \/ \E t \in 1..Len(PortCatalog) : Arrive(t)
    \/ \E id \in 1..MaxPorts : PortAdd(id)
    \/ \E k \in 1..MaxPorts : PortgroupAdd(k)
    \/ GroupAdd
    \/ \E b \in BOOLEAN : SetVeryFast(b)
    \/ \E id \in 1..MaxPorts : RemovePort(id)
    \/ \E k \in 1..MaxPorts : RemovePortgroup(k)
    \/ RemoveAllPorts

SpecRemove == InitCanvas /\ [][NextRemove]_vars

\* the GroupPos read back from a stored dictionary that may be malformed
NextMalformed ==
    \/ Serialize
    \/ ReadMalformed
    \/ Deserialize

SpecMalformed == InitGroupPos /\ [][NextMalformed]_vars

\* the Connections of two ports and the type views they are shown in
NextConnection ==
    \/ \E t \in 1..Len(PortCatalog) : Arrive(t)
    \/ \E o, i \in 1..MaxPorts : Connect(o, i)
    \/ \E k \in 1..MaxConnections, view \in 0..VIEW_ALL : Shown(k, view)

SpecConnection == InitConnection /\ [][NextConnection]_vars

\* the ports, portgroups and connections of a Group in the canvas: the
\* re-sort, in or out of the optimized mode, and the type-view filter
NextSort ==
    \/ \E t \in 1..Len(PortCatalog) : Arrive(t)
    \/ \E m \in 1..Len(MemCatalog) : MemoryAdded(m)
    \/ \E o, i \in 1..MaxPorts : Connect(o, i)
    \/ \E k \in 1..MaxConnections : ConnectionAdd(k)
    \/ GroupAdd
    \/ AddAll
    \/ \E v \in {VIEW_ALL, VIEW_AUDIO, VIEW_MIDI} : ChangeView(v)
    \/ \E b \in BOOLEAN : SetOptimized(b)
    \/ Sort

SpecSort == InitSort /\ [][NextSort]_vars

\* the short names of the ports of a Group
NextNames ==
    \/ \E t \in 1..Len(PortCatalog) : Arrive(t)
    \/ \E id \in 1..MaxPorts : AskShortName(id)

SpecNames == InitNames /\ [][NextNames]_vars

\* the stereo detection on the ports of a Group
NextStereo ==
    \/ \E t \in 1..Len(PortCatalog) : AddPort(t)
    \/ \E t \in 1..Len(PortCatalog) : Arrive(t)
    \/ \E id \in 1..MaxPorts : DetectStereo(id)

SpecStereo == InitStereo /\ [][NextStereo]_vars

\* the box of a Group: its type and icon, its position
NextBox ==
    \/ BoxTypeAndIcon
    \/ GroupAdd
    \/ GroupRemove
    \/ \E flags \in {0, SPLITTED, WRAPPED_INPUT, WRAPPED_OUTPUT,
                     WRAPPED_INPUT + WRAPPED_OUTPUT, SPLITTED + WRAPPED_OUTPUT},
          layout_modes \in {EmptyDict, MODE_OUTPUT :> LAYOUT_HIGH},
          view_change \in BOOLEAN :
            SetGroupPosition([FreshGroupPos EXCEPT !.flags = flags,
                                                   !.layout_modes = layout_modes],
                             view_change)

SpecBox == InitBox /\ [][NextBox]_vars

\* the remembered portgroups read back from their stored dictionaries
NextMem ==
    \/ \E m \in 1..Len(MemCatalog) : MemoryAdded(m)
    \/ \E k \in 1..MaxPorts : ReadMem(k)

SpecMem == Init /\ [][NextMem]_vars

\* the display names of the ports of the a2j bridge
NextA2j ==
    \/ \E t \in 1..Len(PortCatalog) : AddGraceful(t)
    \/ CheckDisplayName

SpecA2j == InitA2j /\ [][NextA2j]_vars

----------------------------------------------------------------------------
\* GroupPos objects copied and changed
NextCopy ==
    \/ \E i \in 1..MaxGroupPos : Copy(i)
    \/ \E i, other \in 1..MaxGroupPos : Eat(i, other)
    \/ \E i \in 1..MaxGroupPos, port_mode \in {MODE_INPUT, MODE_OUTPUT},
          layout_mode \in {LAYOUT_LARGE, LAYOUT_HIGH} :
            PosSetLayoutMode(i, port_mode, layout_mode)

SpecCopy == InitCopy /\ [][NextCopy]_vars

\* the icons of a Group set by the client or by the metadata
NextIcon ==
    \/ BoxTypeAndIcon
    \/ GroupAdd
    \/ GroupRemove
    \/ \E icon_name \in {<<"a", "p", "p">>, <<"n", "e", "w">>}, from_metadata \in BOOLEAN :
          SetClientIcon(icon_name, from_metadata)

SpecIcon == InitBox /\ [][NextIcon]_vars

----------------------------------------------------------------------------
(* Claims *)

\* the ports of a portgroup, as a set
Members(pg) == {pg.ports[i] : i \in 1..Len(pg.ports)}

\* the positions in Group.portgroups of the portgroups a port is a member of
PortgroupsOf(id) == {k \in 1..Len(portgroups) : id \in Members(portgroups[k])}

\* C1: for every Port of the Group, portgroup_id is nonzero iff the Port is a
\* member of exactly one Portgroup of Group.portgroups, and no two Portgroups
\* of the Group share a Port.
C1_PortgroupMembership ==
    /\ \A i \in 1..Len(ports) :
          (port[ports[i]].portgroup_id # 0) <=> (Cardinality(PortgroupsOf(ports[i])) = 1)
    /\ \A k1, k2 \in 1..Len(portgroups) :
          k1 # k2 => Members(portgroups[k1]) \cap Members(portgroups[k2]) = {}

\* C2: every Portgroup of the Group has at least 2 member Ports, all of the
\* same type and the same mode, whatever portgroups_memory holds (a
\* PortgroupMem with a single port name included).
C2_PortgroupShape ==
    \A k \in 1..Len(portgroups) :
        LET pg == portgroups[k]
        IN  /\ Len(pg.ports) >= 2
            /\ \A i, j \in 1..Len(pg.ports) :
                  /\ port[pg.ports[i]].type = port[pg.ports[j]].type
                  /\ Mode(port[pg.ports[i]]) = Mode(port[pg.ports[j]])

\* the case of C3: out_1 then out_2 have arrived, regular audio outputs
\* without metadata, in a Group with no remembered portgroup, and nothing
\* else has been announced
C3_Case ==
    /\ last.op = "arrive"
    /\ next_port_id = 3
    /\ ports = <<1, 2>>
    /\ portgroups_memory = <<>>
    /\ port[1].full_name = GroupName \o <<":", "o", "u", "t", "_", "1">>
    /\ port[2].full_name = GroupName \o <<":", "o", "u", "t", "_", "2">>
    /\ \A id \in {1, 2} :
          /\ FullType(port[id]) = <<AUDIO_JACK, REGULAR>>
          /\ Mode(port[id]) = MODE_OUTPUT
          /\ port[id].mdata_portgroup = ""

\* C3: after MyApp:out_1 then MyApp:out_2 arrived, exactly one Portgroup
\* exists, with the member tuple (out_1, out_2)
C3_StereoPair ==
    C3_Case => /\ Len(portgroups) = 1
               /\ portgroups[1].ports = <<1, 2>>
               /\ ~raised

\* C3 witness: the two ports have arrived and are paired
C3_Witness == C3_Case /\ Len(portgroups) = 1 /\ portgroups[1].ports = <<1, 2>>

\* the Group's ports a PortgroupMem names: same type, same mode, a remembered
\* short name
MemPortIds(mem) ==
    {id \in DOMAIN port : /\ MemMatchesPort(mem, port[id])
                          /\ InSeq(ShortName(port[id].full_name), mem.port_names)}

\* Group.portgroups contains the grouping a PortgroupMem remembers
RememberedPresent(mem) ==
    \E k \in 1..Len(portgroups) :
        /\ [i \in 1..Len(portgroups[k].ports) |->
               ShortName(port[portgroups[k].ports[i]].full_name)] = mem.port_names
        /\ PortgroupType(State, portgroups[k]) = mem.port_type
        /\ portgroups[k].port_mode = mem.port_mode

\* the groups the mdata_portgroup tags make of the Group's ports in their
\* present order: the runs of equally tagged ports, two ports or more
TaggedGroups ==
    LET runs == MetadataRuns([ports |-> ports,
                              port |-> [id \in DOMAIN port |->
                                           [port[id] EXCEPT !.portgroup_id = 0]]],
                             1, <<>>)
    IN  {runs[r] : r \in {q \in 1..Len(runs) : Len(runs[q].ports) >= 2}}

\* the tagged groups that overlap the member set of a PortgroupMem without
\* being that set
OverlappingGroups(mem) ==
    {run \in TaggedGroups :
        LET set == {run.ports[i] : i \in 1..Len(run.ports)}
        IN  set \cap MemPortIds(mem) # {} /\ set # MemPortIds(mem)}

\* the case of C4: a PortgroupMem of this Group with above_metadatas false,
\* all its ports arrived, and tags that group a different, overlapping set
C4_Case(mem) ==
    /\ ~mem.above_metadatas
    /\ mem.group_name = group.name
    /\ Len(mem.port_names) >= 2
    /\ \A n \in 1..Len(mem.port_names) :
          \E id \in MemPortIds(mem) : ShortName(port[id].full_name) = mem.port_names[n]
    /\ OverlappingGroups(mem) # {}

\* C4 (as stated): with above_metadatas false and overlapping metadata tags,
\* after sort_ports_in_canvas the Group's Portgroups contain the remembered
\* grouping rather than the metadata grouping
C4_RememberedPreferred ==
    \A m \in 1..Len(portgroups_memory) :
        (/\ last.op = "sort_ports_in_canvas"
         /\ ~raised
         /\ C4_Case(portgroups_memory[m]))
        => RememberedPresent(portgroups_memory[m])

\* a metadata portgroup stands for a tagged group
MetadataGroupingPresent(run) ==
    \E k \in 1..Len(portgroups) :
        /\ portgroups[k].ports = run.ports
        /\ portgroups[k].mdata_portgroup = run.pg_name

\* C4 (amended): with above_metadatas false and overlapping metadata tags, the
\* first sort_ports_in_canvas after the arrivals (no metadata Portgroup made
\* yet, no above_metadatas memory) leaves the metadata grouping in the Group's
\* Portgroups and not the remembered grouping
C4_MetadataPreferred ==
    [][\A m \in 1..Len(portgroups_memory) :
          (/\ last'.op = "sort_ports_in_canvas"
           /\ ~raised'
           /\ \A k \in 1..Len(portgroups) : portgroups[k].mdata_portgroup = ""
           /\ \A n \in 1..Len(portgroups_memory) : ~portgroups_memory[n].above_metadatas
           /\ C4_Case(portgroups_memory[m])')
          => /\ ~RememberedPresent(portgroups_memory[m])'
             /\ \A run \in OverlappingGroups(portgroups_memory[m])' :
                   MetadataGroupingPresent(run)'
      ]_vars

\* C4 witness: after a re-sort the tagged ports of a remembered grouping
\* stand in a metadata portgroup, and the remembered grouping is absent
C4_Witness ==
    /\ last.op = "sort_ports_in_canvas"
    /\ ~raised
    /\ \E m \in 1..Len(portgroups_memory) :
          /\ C4_Case(portgroups_memory[m])
          /\ ~RememberedPresent(portgroups_memory[m])
          /\ \A run \in OverlappingGroups(portgroups_memory[m]) :
                MetadataGroupingPresent(run)

\* the number of calls of one patchcanvas function for one id in a list of calls
CountCalls(list, fn, id) ==
    Cardinality({i \in 1..Len(list) : list[i].fn = fn /\ list[i].id = id})

\* C5: Port.add_to_canvas called twice in a row on a Port emits exactly one
\* patchcanvas.add_port for it (the Port was not in the canvas, its type is
\* shown and the calls are not deferred: the first call emits it, the second
\* none), and Port.remove_from_canvas called twice in a row on a Port in the
\* canvas emits exactly one patchcanvas.remove_port; in no case does the
\* second call emit one
C5_TwiceInARow ==
    /\ prev.op = "Port.add_to_canvas" =>
          LET id == prev.arg[1]
          IN  /\ CountCalls(calls, "add_port", id) = 0
              /\ (/\ ~prev.was[1]
                  /\ ~very_fast_operation
                  /\ PortTypeShown(port_types_view, FullType(port[id])))
                 => /\ CountCalls(prev.calls \o calls, "add_port", id) = 1
                    /\ port[id].in_canvas
    /\ prev.op = "Port.remove_from_canvas" =>
          LET id == prev.arg[1]
          IN  /\ CountCalls(calls, "remove_port", id) = 0
              /\ (prev.was[1] /\ ~very_fast_operation)
                 => /\ CountCalls(prev.calls \o calls, "remove_port", id) = 1
                    /\ ~port[id].in_canvas

\* C5 witness: a Port outside the canvas was added twice in a row, and the
\* first call emitted the add_port
C5_Witness ==
    /\ prev.op = "Port.add_to_canvas"
    /\ ~prev.was[1]
    /\ CountCalls(prev.calls, "add_port", prev.arg[1]) = 1
    /\ calls = <<>>

\* the canvas mirroring operations of the entities
MirrorOps ==
    {"Port.add_to_canvas", "Port.remove_from_canvas", "Port.rename_in_canvas",
     "Port.select_in_canvas", "Portgroup.add_to_canvas",
     "Portgroup.remove_from_canvas", "Connection.add_to_canvas",
     "Connection.remove_from_canvas", "Group.add_to_canvas",
     "Group.remove_from_canvas"}

\* C6: while very_fast_operation is set, no canvas mirroring operation of a
\* Group, Port, Portgroup or Connection emits a patchcanvas call, and no
\* entity's in_canvas becomes true
C6_VeryFastSuppresses ==
    [][(very_fast_operation /\ last'.op \in MirrorOps)
       => /\ calls' = <<>>
          /\ group'.in_canvas => group.in_canvas
          /\ \A id \in DOMAIN port : port'[id].in_canvas => port[id].in_canvas
          /\ \A k \in 1..Len(portgroups) :
                portgroups'[k].in_canvas => portgroups[k].in_canvas
          /\ \A k \in 1..Len(connections) :
                connections'[k].in_canvas => connections[k].in_canvas
      ]_vars

\* the Port's full type is filtered out of view
FilteredOut(id) == ~PortTypeShown(port_types_view, FullType(port[id]))

\* C7 (as stated): when the Port's full type is filtered out of view, each of
\* Port.add_to_canvas, remove_from_canvas, rename_in_canvas and
\* select_in_canvas emits no patchcanvas call and leaves in_canvas unchanged,
\* whatever the value of in_canvas
C7_FilteredNoOp ==
    [][\A id \in DOMAIN port :
          (/\ last'.op \in PortCanvasOps
           /\ last'.arg = <<id>>
           /\ FilteredOut(id))
          => /\ calls' = <<>>
             /\ port'[id].in_canvas = port[id].in_canvas
      ]_vars

\* C7 (amended): when the Port's full type is filtered out of view,
\* add_to_canvas is a no-op whatever in_canvas is; remove_from_canvas,
\* rename_in_canvas and select_in_canvas do not consult the filter: they are
\* no-ops when in_canvas is false, and when it is true remove_from_canvas
\* (very_fast_operation not set) emits remove_port and clears in_canvas,
\* rename_in_canvas emits rename_port and select_in_canvas emits select_port
C7_FilteredAddOnly ==
    [][\A id \in DOMAIN port :
          (/\ last'.op \in PortCanvasOps
           /\ last'.arg = <<id>>
           /\ FilteredOut(id))
          => LET no_op == calls' = <<>> /\ port'[id].in_canvas = port[id].in_canvas
                 one(fn) == calls' = <<[fn |-> fn, id |-> id, arg |-> <<>>]>>
             IN  IF last'.op = "Port.add_to_canvas" \/ ~port[id].in_canvas
                 THEN no_op
                 ELSE IF last'.op = "Port.remove_from_canvas"
                 THEN IF very_fast_operation THEN no_op
                      ELSE one("remove_port") /\ ~port'[id].in_canvas
                 ELSE IF last'.op = "Port.rename_in_canvas"
                 THEN one("rename_port") /\ port'[id].in_canvas
                 ELSE one("select_port") /\ port'[id].in_canvas
      ]_vars

\* C7 witness: a Port in the canvas whose type is filtered out of view has
\* been removed from the canvas by remove_from_canvas
C7_Witness ==
    /\ last.op = "Port.remove_from_canvas"
    /\ last.was = <<TRUE>>
    /\ FilteredOut(last.arg[1])
    /\ calls = <<[fn |-> "remove_port", id |-> last.arg[1], arg |-> <<>>]>>
    /\ ~port[last.arg[1]].in_canvas

\* C8: for every Port, Portgroup, Connection and the Group registered in the
\* model, in_canvas is true iff the canvas holds the entity (one more add
\* call than remove calls was emitted for its id), and no id has more than
\* one unmatched add call
C8_InCanvasMirrors ==
    /\ \A id \in DOMAIN port :
          /\ canvas.ports[id] \in {0, 1}
          /\ port[id].in_canvas <=> canvas.ports[id] = 1
    /\ \A k \in 1..Len(portgroups) :
          /\ canvas.portgroups[portgroups[k].portgroup_id] \in {0, 1}
          /\ portgroups[k].in_canvas <=> canvas.portgroups[portgroups[k].portgroup_id] = 1
    /\ \A k \in 1..Len(connections) :
          /\ canvas.connections[connections[k].connection_id] \in {0, 1}
          /\ connections[k].in_canvas
                <=> canvas.connections[connections[k].connection_id] = 1
    /\ canvas.group \in {0, 1}
    /\ group.in_canvas <=> canvas.group = 1

\* C8 witness: after a remove_from_canvas, a Portgroup is out of the canvas
\* while its Ports, a Connection and the Group are in it, and a toggle of
\* very_fast_operation and of the filter are possible from here
C8_Witness ==
    /\ last.op = "Portgroup.remove_from_canvas"
    /\ calls # <<>>
    /\ group.in_canvas
    /\ \E k \in 1..Len(portgroups) :
          /\ ~portgroups[k].in_canvas
          /\ \A i \in 1..Len(portgroups[k].ports) :
                port[portgroups[k].ports[i]].in_canvas
    /\ \E k \in 1..Len(connections) : connections[k].in_canvas

\* C9: Port.__lt__ is a strict total order on the ports of the Group
\* (irreflexive, transitive, and of two distinct ports exactly one is less
\* than the other), and sorting the sorted list of ports leaves it unchanged
C9_StrictTotalOrder ==
    /\ \A a \in DOMAIN port : ~PortLt(port[a], port[a])
    /\ \A a, b, c \in DOMAIN port :
          (PortLt(port[a], port[b]) /\ PortLt(port[b], port[c])) => PortLt(port[a], port[c])
    /\ \A a, b \in DOMAIN port :
          a # b => (PortLt(port[a], port[b]) <=> ~PortLt(port[b], port[a]))
    /\ StableSort(port, StableSort(port, ports)) = StableSort(port, ports)

\* the case of C10: from_serialized_dict has just run on the dictionary
\* as_serializable_dict makes of the Group's GroupPos
C10_Case ==
    /\ last.op = "from_serialized_dict"
    /\ serialized = <<AsSerializableDict(current_position)>>

\* C10 (as stated): from_serialized_dict(g.as_serializable_dict()) equals g
\* in every field, fully_set included
C10_RoundTripAllFields ==
    C10_Case => /\ ~raised
                /\ loaded = <<current_position>>

\* C10 (amended): from_serialized_dict(g.as_serializable_dict()) equals g in
\* the ten serialized fields (port_types_view, group_name, null_zone, in_zone,
\* out_zone, null_xy, in_xy, out_xy, flags, layout_modes); fully_set is not
\* serialized and is True in the result
C10_RoundTripSerializedFields ==
    C10_Case => /\ ~raised
                /\ loaded = <<[current_position EXCEPT !.fully_set = TRUE]>>

\* C10 witness: a GroupPos with layout modes, flags, a position and fully_set
\* False has gone through the round trip
C10_Witness ==
    /\ C10_Case
    /\ ~current_position.fully_set
    /\ current_position.layout_modes # EmptyDict
    /\ current_position.flags # 0
    /\ current_position.null_xy # <<0, 0>>
    /\ loaded # <<>>
    /\ loaded[1].layout_modes = current_position.layout_modes

\* what from_serialized_dict is given holds a well-typed value for a key
WellTyped(src, key) ==
    /\ key \in DOMAIN src
    /\ IF key \in {"port_types_view", "flags"} THEN IsInt(src[key])
       ELSE IF key \in {"group_name", "null_zone", "in_zone", "out_zone"}
       THEN src[key].type = "str"
       ELSE IF key \in {"null_xy", "in_xy", "out_xy"} THEN IsPoint(src[key])
       ELSE src[key].type = "dict"

\* C11: GroupPos.from_serialized_dict never raises: given a dictionary in
\* which some of the ten keys are missing or hold values of the wrong type,
\* it returns a GroupPos whose corresponding fields have their defaults
C11_NeverRaises ==
    last.op = "from_serialized_dict"
    => /\ ~raised
       /\ loaded # <<>>
       /\ \A key \in DOMAIN AsSerializableDict(NewGroupPos) :
             ~WellTyped(serialized[1], key) => loaded[1][key] = NewGroupPos[key]

\* the detection operations: the arrival of a port runs
\* check_for_portgroup_on_last_port, and with it stereo_detection
DetectionOps == {"arrive", "portgroup_memory_added", "sort_ports_in_canvas"}

\* C12: check_for_portgroup_on_last_port, stereo_detection,
\* portgroup_memory_added and sort_ports_in_canvas complete without raising,
\* whatever the Group's ports and portgroups_memory hold (a PortgroupMem with
\* no port name, a port whose name after the group prefix is empty or made
\* of digits only)
C12_DetectionNeverRaises == last.op \in DetectionOps => ~raised

\* C13: after Group.remove_port(p) returns, no Portgroup of Group.portgroups
\* has p among its members
C13_NoPortgroupOutlivesPort ==
    last.op = "remove_port"
    => \A k \in 1..Len(portgroups) : last.arg[1] \notin Members(portgroups[k])

\* the ports of the Group, as a set
PortSet(seq) == {seq[i] : i \in 1..Len(seq)}

\* the ids of the portgroups of the Group
PortgroupIds(seq) == {seq[k].portgroup_id : k \in 1..Len(seq)}

\* C14: when Group.remove_all_ports or Group.remove_portgroup removes a Port
\* or a Portgroup from the Group's lists, the canvas does not hold it after
\* the call, whatever very_fast_operation and Group.in_canvas were
C14_ReleasedBeforeRemoved ==
    [][last'.op \in {"remove_all_ports", "remove_portgroup"}
       => /\ \A id \in PortSet(ports) \ PortSet(ports') : canvas'.ports[id] = 0
          /\ \A g \in PortgroupIds(portgroups) \ PortgroupIds(portgroups') :
                canvas'.portgroups[g] = 0
      ]_vars

\* the positions in Group.ports of the ports of one type and mode
SameKind(type, mode) ==
    SelectIdx(ports, {i \in 1..Len(ports) :
                         port[ports[i]].type = type /\ Mode(port[ports[i]]) = mode}, 1)

\* seq is a run of consecutive items of list
IsRunOf(seq, list) ==
    \E o \in 0..(Len(list) - Len(seq)) : \A i \in 1..Len(seq) : list[o + i] = seq[i]

\* C15: every Portgroup built from a PortgroupMem has exactly
\* len(port_names) members, whose short names equal port_names position by
\* position and whose type and mode are the remembered ones, and its members
\* follow each other among the Group's ports of that type and mode: no
\* Portgroup is built when the ports are missing or interrupted
C15_NoPartialPortgroup ==
    \A b \in 1..Len(built) :
        \E k \in 1..Len(portgroups) :
            LET pg == portgroups[k]
                mem == built[b].mem
            IN  /\ pg.portgroup_id = built[b].portgroup_id
                /\ Len(pg.ports) = Len(mem.port_names)
                /\ \A i \in 1..Len(pg.ports) :
                      /\ ShortName(port[pg.ports[i]].full_name) = mem.port_names[i]
                      /\ port[pg.ports[i]].type = mem.port_type
                      /\ Mode(port[pg.ports[i]]) = mem.port_mode
                /\ IsRunOf(pg.ports, SameKind(mem.port_type, mem.port_mode))

\* C15 witness: portgroup_memory_added has built the Portgroup of a
\* PortgroupMem of two names while the Group has other ports
C15_Witness ==
    /\ last.op = "portgroup_memory_added"
    /\ Len(built) = 1
    /\ Len(built[1].mem.port_names) = 2
    /\ Len(ports) > 2

\* the connection the last shown_in_port_types_view was asked of
AskedConnection == connections[last.arg[1]]

\* the bit of the type view for a Connection whose two ports have the same
\* type and subtype, which is MIDI, regular audio or CV audio; 0 for every
\* other Connection
ViewBit(c) ==
    LET out == port[c.port_out]
        inp == port[c.port_in]
    IN  IF out.type = MIDI_JACK /\ inp.type = MIDI_JACK THEN VIEW_MIDI
        ELSE IF out.type = AUDIO_JACK /\ inp.type = AUDIO_JACK
                /\ out.subtype = REGULAR /\ inp.subtype = REGULAR THEN VIEW_AUDIO
        ELSE IF out.type = AUDIO_JACK /\ inp.type = AUDIO_JACK
                /\ out.subtype = CV /\ inp.subtype = CV THEN VIEW_CV
        ELSE 0

\* C16: shown_in_port_types_view(view) returns true iff both ports are MIDI,
\* both regular audio or both CV audio and view has the MIDI, AUDIO or CV
\* bit; for every other pair of ports (video, mixed types, regular with CV) it
\* returns false
C16_ShownIffBothEnds ==
    last.op = "shown_in_port_types_view" =>
        answer = <<BitAnd(last.arg[2], ViewBit(AskedConnection)) # 0>>

\* C17: a sort_ports_in_canvas that returns leaves manager.optimized_operation
\* as it found it: when the optimized mode was already enabled it stays
\* enabled, and the method neither leaves the mode (no set_loading_items(False))
\* nor redraws the group; when it was disabled it is disabled afterwards
C17_OptimizedAsFound ==
    [][(last'.op = "sort_ports_in_canvas" /\ ~raised') =>
          /\ optimized_operation' = optimized_operation
          /\ optimized_operation =>
                \A i \in 1..Len(calls') :
                    /\ calls'[i].fn # "redraw_group"
                    /\ ~(calls'[i].fn = "set_loading_items" /\ calls'[i].arg = <<FALSE>>)]_vars

\* C17 witness: a Group in the canvas, with a Portgroup, has been re-sorted in
\* the optimized mode
C17_Witness ==
    /\ last.op = "sort_ports_in_canvas"
    /\ ~raised
    /\ optimized_operation
    /\ group.in_canvas
    /\ portgroups # <<>>

\* the places at or after position from where sep occurs in name
Occurrences(name, from, sep) ==
    {k \in from..(Len(name) - Len(sep) + 1) : SubSeq(name, k, k + Len(sep) - 1) = sep}

\* the text of name after the first sep found at or after position from
TextAfter(name, from, sep) ==
    LET k == CHOOSE k \in Occurrences(name, from, sep) :
                 \A j \in Occurrences(name, from, sep) : k <= j
    IN  SubSeq(name, k + Len(sep), Len(name))

\* the <name> of "a2j:<client>: <name>", of "Midi-Bridge:<client>) <name>" and
\* of "Midi-Bridge:<client>: <name>", the <client> being the shortest one; for
\* any other full name the text after its first ':'
StrippedName(name) ==
    LET a2j == <<"a", "2", "j", ":">>
        bridge == <<"M", "i", "d", "i", "-", "B", "r", "i", "d", "g", "e", ":">>
        is_a2j == Len(name) >= 4 /\ SubSeq(name, 1, 4) = a2j
        is_bridge == Len(name) >= 12 /\ SubSeq(name, 1, 12) = bridge
    IN  IF is_a2j /\ Occurrences(name, 5, <<":", " ">>) # {}
        THEN TextAfter(name, 5, <<":", " ">>)
        ELSE IF is_bridge /\ Occurrences(name, 13, <<")", " ">>) # {}
        THEN TextAfter(name, 13, <<")", " ">>)
        ELSE IF is_bridge /\ Occurrences(name, 13, <<":", " ">>) # {}
        THEN TextAfter(name, 13, <<":", " ">>)
        ELSE IF Occurrences(name, 1, <<":">>) # {}
        THEN TextAfter(name, 1, <<":">>)
        ELSE <<>>

\* the full name of the port the last short_name was asked of
AskedName == port[last.arg[1]].full_name

\* C18: Port.short_name returns the <name> of "a2j:<client>: <name>", of
\* "Midi-Bridge:<client>) <name>" and of "Midi-Bridge:<client>: <name>"
\* ("a2j:Foo Bar: Bar_in 1" gives "Bar_in 1", "Midi-Bridge:Client) capture_1"
\* gives "capture_1"), and for any other full name the text after its first ':'
C18_ShortNameForms ==
    last.op = "short_name" =>
        /\ answer = <<StrippedName(AskedName)>>
        /\ AskedName = <<"a", "2", "j", ":", "F", "o", "o", " ", "B", "a", "r", ":", " ", "B", "a", "r", "_", "i", "n", " ", "1">> => answer = <<<<"B", "a", "r", "_", "i", "n", " ", "1">>>>
        /\ AskedName = <<"M", "i", "d", "i", "-", "B", "r", "i", "d", "g", "e", ":", "C", "l", "i", "e", "n", "t", ")", " ", "c", "a", "p", "t", "u", "r", "e", "_", "1">> => answer = <<<<"c", "a", "p", "t", "u", "r", "e", "_", "1">>>>

\* C18 witness: short_name has been asked of a Midi-Bridge port named with ") "
C18_Witness ==
    /\ last.op = "short_name"
    /\ AskedName = <<"M", "i", "d", "i", "-", "B", "r", "i", "d", "g", "e", ":", "C", "l", "i", "e", "n", "t", ")", " ", "c", "a", "p", "t", "u", "r", "e", "_", "1">>
    /\ answer = <<<<"c", "a", "p", "t", "u", "r", "e", "_", "1">>>>

\* the Portgroups the Group had when the last sort_ports_in_canvas began
PortgroupsBefore == {last.was[1][k] : k \in 1..Len(last.was[1])}

\* the Portgroup of the Group with this id, in a set of none or one
Retained(id) == {portgroups[k] : k \in {j \in 1..Len(portgroups) : portgroups[j].portgroup_id = id}}

\* C19: a sort_ports_in_canvas that returns retains a Portgroup the Group
\* had only if its members stand consecutively, in member order, in the newly
\* sorted Group.ports; every other one is removed, and each of its members
\* has portgroup_id 0 unless the same sort put it in a new Portgroup
C19_RetainedOnlyIfConsecutive ==
    (last.op = "sort_ports_in_canvas" /\ ~raised) =>
        \A pg \in PortgroupsBefore :
            IF Retained(pg.portgroup_id) # {}
            THEN /\ \A kept \in Retained(pg.portgroup_id) : kept.ports = pg.ports
                 /\ IsRunOf(pg.ports, ports)
            ELSE \A i \in 1..Len(pg.ports) :
                    LET id == port[pg.ports[i]].portgroup_id
                    IN  \/ id = 0
                        \/ /\ \A old \in PortgroupsBefore : old.portgroup_id # id
                           /\ \E new \in Retained(id) : InSeq(pg.ports[i], new.ports)

\* C19 witness: a sort has removed a Portgroup whose members no longer stand
\* consecutively in Group.ports, and left them ungrouped
C19_Witness ==
    /\ last.op = "sort_ports_in_canvas"
    /\ ~raised
    /\ \E pg \in PortgroupsBefore :
          /\ Retained(pg.portgroup_id) = {}
          /\ ~IsRunOf(pg.ports, ports)
          /\ \A i \in 1..Len(pg.ports) : port[pg.ports[i]].portgroup_id = 0

\* C20: after a sort_ports_in_canvas that returns, every metadata Portgroup
\* the sort formed has two members or more, which stand consecutively in the
\* sorted Group.ports and share its non-empty tag, one type and one mode: no
\* two ports with an untagged or already grouped port between them are in one
\* metadata Portgroup
C20_MetadataRunConsecutive ==
    (last.op = "sort_ports_in_canvas" /\ ~raised) =>
        \A k \in 1..Len(portgroups) :
            LET pg == portgroups[k]
            IN  (/\ pg.mdata_portgroup # ""
                 /\ \A old \in PortgroupsBefore : old.portgroup_id # pg.portgroup_id) =>
                    /\ Len(pg.ports) >= 2
                    /\ IsRunOf(pg.ports, ports)
                    /\ \A i \in 1..Len(pg.ports) :
                          /\ port[pg.ports[i]].mdata_portgroup = pg.mdata_portgroup
                          /\ port[pg.ports[i]].type = port[pg.ports[1]].type
                          /\ Mode(port[pg.ports[i]]) = pg.port_mode

\* the port the last stereo_detection was asked of
AskedPort == port[last.arg[1]]

\* the name of a port with the prefix of the group stripped
Stripped(p) == ReplaceFirst(p.full_name, GroupName \o <<":">>, <<>>)

\* the ports before the asked one in Group.ports that may be its left port:
\* same type, subtype and mode, in no portgroup, stereo not prevented
EligibleBefore ==
    {ports[i] : i \in {j \in 1..Len(ports) :
        /\ \E k \in (j + 1)..Len(ports) : ports[k] = AskedPort.port_id
        /\ FullType(port[ports[j]]) = FullType(AskedPort)
        /\ Mode(port[ports[j]]) = Mode(AskedPort)
        /\ port[ports[j]].portgroup_id = 0
        /\ ~port[ports[j]].prevent_stereo}}

\* the nearest of them, in a set of none or one
NearestEligible ==
    {id \in EligibleBefore :
        \A other \in EligibleBefore : IndexOf(other, ports) <= IndexOf(id, ports)}

\* a PortgroupMem of the group's name and of the port's type and mode names
\* the port
NamedByMemory(p) ==
    \E m \in 1..Len(portgroups_memory) :
        /\ portgroups_memory[m].group_name = group.name
        /\ portgroups_memory[m].port_type = p.type
        /\ portgroups_memory[m].port_mode = Mode(p)
        /\ InSeq(ShortName(p.full_name), portgroups_memory[m].port_names)

\* the case of C21: stereo_detection has returned for the last port of the
\* Group, a non-physical regular audio port whose stripped name ends in a
\* number after a text
C21_Case ==
    /\ last.op = "stereo_detection"
    /\ ~raised
    /\ ports[Len(ports)] = AskedPort.port_id
    /\ FullType(AskedPort) = <<AUDIO_JACK, REGULAR>>
    /\ BitAnd(AskedPort.flags, IS_PHYSICAL) = 0
    /\ TrailingDigits(Stripped(AskedPort)) \in 1..(Len(Stripped(AskedPort)) - 1)

\* the text before the number of the asked port, and the number
AskedBase == DropLast(Stripped(AskedPort), TrailingDigits(Stripped(AskedPort)))

AskedDigits ==
    SubSeq(Stripped(AskedPort), Len(AskedBase) + 1, Len(Stripped(AskedPort)))

\* the name with n replaced by n - 1 and, for n 1 or 2, the bare name (the
\* text before the number, less one final ' ' or '_')
DecrementOrBare ==
    {AskedBase \o IntToStr(ParseInt(AskedDigits) - 1)}
    \cup (IF ParseInt(AskedDigits) \in {1, 2}
          THEN {IF AskedBase[Len(AskedBase)] \in {" ", "_"}
                THEN DropLast(AskedBase, 1) ELSE AskedBase}
          ELSE {})

\* the port stereo_detection returns when the names in the set are the ones
\* that match: the nearest eligible port before, if no PortgroupMem names it
\* and its stripped name is in the set
Returned(names) ==
    IF \E o \in NearestEligible : ~NamedByMemory(port[o]) /\ Stripped(port[o]) \in names
    THEN <<CHOOSE o \in NearestEligible : TRUE>>
    ELSE <<NoPort>>

\* C21 (as stated): for a new non-physical regular audio port whose stripped
\* name ends in a number n, stereo_detection returns the nearest eligible
\* port before it iff that port's stripped name is the new name with n
\* replaced by n - 1 or, for n 1 or 2 only, the bare name; else no port
C21_DecrementOrBare == C21_Case => answer = Returned(DecrementOrBare)

\* C21 (amended): the same when the text before the number does not end in
\* 'R'; when it does, the port is returned iff its stripped name is the new
\* name with that 'R' replaced by 'L', the number unchanged
C21_DecrementBareOrLeft ==
    C21_Case =>
        answer = Returned(IF AskedBase[Len(AskedBase)] = "R"
                          THEN {DropLast(AskedBase, 1) \o <<"L">> \o AskedDigits}
                          ELSE DecrementOrBare)

\* C21 witness: stereo_detection has returned the port named outL2 for the
\* new port outR2
C21_Witness ==
    /\ C21_Case
    /\ AskedBase[Len(AskedBase)] = "R"
    /\ answer # <<NoPort>>

\* the ports of the kind of port p that stand between port x and p in
\* Group.ports and are in no portgroup
UngroupedBetween(x, p) ==
    {ports[j] : j \in {i \in 1..Len(ports) :
        /\ IndexOf(x, ports) < i - 1
        /\ i - 1 < IndexOf(p.port_id, ports)
        /\ FullType(port[ports[i]]) = FullType(p)
        /\ Mode(port[ports[i]]) = Mode(p)
        /\ port[ports[i]].portgroup_id = 0
        /\ ~port[ports[i]].prevent_stereo}}

\* C22: when a PortgroupMem of the group's name, type and mode names the
\* nearest eligible port before the last port, stereo_detection returns no
\* port for the last port, whatever the earlier ports are; and the arrival
\* of a port makes no stereo Portgroup of it with a port the memory names,
\* nor with a port further than an ungrouped one of its kind
C22_NoPairWithRemembered ==
    /\ (/\ last.op = "stereo_detection"
        /\ ports[Len(ports)] = AskedPort.port_id
        /\ \E o \in NearestEligible : NamedByMemory(port[o]))
          => (~raised /\ answer = <<NoPort>>)
    /\ (last.op = "arrive" /\ ~raised) =>
          \A k \in 1..Len(portgroups) :
              LET pg == portgroups[k]
                  new == port[ports[Len(ports)]]
              IN  (/\ Len(pg.ports) = 2
                   /\ pg.ports[2] = new.port_id
                   /\ \A b \in 1..Len(built) : built[b].portgroup_id # pg.portgroup_id)
                      => /\ ~NamedByMemory(port[pg.ports[1]])
                         /\ UngroupedBetween(pg.ports[1], new) = {}

\* C22 witness: stereo_detection has returned no port for out_2, the port
\* before it being named by a PortgroupMem and out_1 standing before both
C22_Witness ==
    /\ last.op = "stereo_detection"
    /\ ports[Len(ports)] = AskedPort.port_id
    /\ \E o \in NearestEligible : NamedByMemory(port[o])
    /\ \E x \in EligibleBefore :
          /\ ~NamedByMemory(port[x])
          /\ Stripped(port[x]) \in DecrementOrBare
    /\ answer = <<NoPort>>

\* C23: a Group whose _is_hardware flag is set and that has no client icon
\* is of box type HARDWARE whatever its name is, and a Group with no
\* metadata icon, no client icon, no hardware flag and no PulseAudio or
\* Monitor name is of box type APPLICATION
C23_HardwareBeforeNames ==
    last.op = "_get_box_type_and_icon" =>
        /\ (group.is_hardware /\ group.client_icon = <<>>) => answer[1] = "HARDWARE"
        /\ (/\ ~group.is_hardware
            /\ group.client_icon = <<>>
            /\ group.mdata_icon = <<>>
            /\ ~StartsWith(group.name, <<"P", "u", "l", "s", "e", "A", "u", "d", "i", "o", " ">>)
            /\ ~EndsWith(group.name, <<" ", "M", "o", "n", "i", "t", "o", "r">>)) => answer[1] = "APPLICATION"

\* C24: when set_group_position(new, view_change) runs on a Group in the
\* canvas, split_group is emitted iff the new flags have SPLITTED and the
\* previous flags had not, animate_before_join is emitted iff the previous
\* flags had SPLITTED and the new flags have not, and every wrap_group_box
\* emitted carries prevent_overlap = (not view_change)
C24_SplitJoinOverlap ==
    [][(last'.op = "set_group_position" /\ group.in_canvas) =>
        LET new == BitAnd(last'.arg[1].flags, SPLITTED) # 0
            ex == BitAnd(current_position.flags, SPLITTED) # 0
        IN  /\ CountCalls(calls', "split_group", group.group_id)
                = (IF new /\ ~ex THEN 1 ELSE 0)
            /\ CountCalls(calls', "animate_before_join", group.group_id)
                = (IF ex /\ ~new THEN 1 ELSE 0)
            /\ CountCalls(calls', "wrap_group_box", group.group_id) >= 1
            /\ \A i \in 1..Len(calls') :
                calls'[i].fn = "wrap_group_box" =>
                    calls'[i].arg[3] = ~last'.arg[2]]_vars

\* a Group in the canvas was split by a position set on a view change
C24_Witness ==
    /\ last.op = "set_group_position"
    /\ last.arg[2]
    /\ group.in_canvas
    /\ CountCalls(calls, "split_group", group.group_id) = 1

\* the value a well-formed field of a stored PortgroupMem dictionary holds
\* (as one tuple), or nothing when the field is missing or malformed
WellFormedField(d, key) ==
    IF key \notin DOMAIN d THEN <<>>
    ELSE LET v == d[key]
         IN  CASE key = "group_name" -> IF v.type = "str" THEN <<v.value>> ELSE <<>>
               [] key \in {"port_type", "port_mode"} ->
                    IF v.type = "int" THEN <<v.value>> ELSE <<>>
               [] key = "port_names" ->
                    IF v.type = "list" /\ \A i \in 1..Len(v.value) : v.value[i].type = "str"
                    THEN <<[i \in 1..Len(v.value) |-> v.value[i].value]>> ELSE <<>>
               [] key = "above_metadatas" ->
                    IF v.type = "bool" THEN <<v.value = 1>> ELSE <<>>

\* C25: PortgroupMem.from_serialized_dict never raises, and in its result
\* every field that is well-formed in the input has the value given in the
\* input, whatever other field is missing or malformed, while a missing or
\* malformed field has its default
C25_FieldByField ==
    last.op = "PortgroupMem.from_serialized_dict" =>
        /\ ~raised
        /\ \A key \in {"group_name", "port_type", "port_mode", "port_names",
                       "above_metadatas"} :
            LET given == WellFormedField(last.arg[1], key)
            IN  answer[1][key] =
                    IF given # <<>> THEN given[1]
                    ELSE CASE key = "group_name" -> <<>>
                           [] key = "port_type" -> TYPE_NULL
                           [] key = "port_mode" -> MODE_NULL
                           [] key = "port_names" -> <<>>
                           [] key = "above_metadatas" -> FALSE

\* the nearest port before the last one of Group.ports that has its type and
\* mode (as a set: empty when there is none)
NearestOfLastKind ==
    IF ports = <<>> THEN {}
    ELSE LET last_port == port[ports[Len(ports)]]
             same == {i \in 1..(Len(ports) - 1) :
                         /\ port[ports[i]].type = last_port.type
                         /\ Mode(port[ports[i]]) = Mode(last_port)}
         IN  IF same = {} THEN {} ELSE {ports[CHOOSE i \in same : \A j \in same : j <= i]}

\* the name test binds to the first pair only: the nearest port defers '0',
\* the last port's name ends in '1' and the names are equal up to the final
\* character; or the nearest port defers '1' and the last port's name ends in '2'
DeferredDigitDue(id) ==
    LET full == port[ports[Len(ports)]].full_name
        last_digit == full[Len(full)]
    IN  \/ /\ DropLast(port[id].full_name, 1) = DropLast(full, 1)
           /\ port[id].last_digit_to_add = <<"0">>
           /\ last_digit = "1"
        \/ /\ port[id].last_digit_to_add = <<"1">>
           /\ last_digit = "2"

\* C26: check_for_display_name_on_last_port appends the deferred digit to the
\* display name of the nearest preceding port of the last port's type and
\* mode when that port defers '0', the last port's name ends in '1' and the
\* two full names are equal except for the final character, or when it defers
\* '1' and the last port's name ends in '2' (the names matching or not); the
\* port's last_digit_to_add is then empty; in no other case does a port change
C26_FirstDisjunctOnly ==
    [][last'.op = "check_for_display_name_on_last_port" =>
        /\ ~raised'
        /\ \A id \in DOMAIN port :
            IF id \in NearestOfLastKind /\ DeferredDigitDue(id)
            THEN port'[id] = [port[id] EXCEPT
                                !.display_name = @ \o <<" ">> \o port[id].last_digit_to_add,
                                !.last_digit_to_add = <<>>]
            ELSE port'[id] = port[id]]_vars

\* a port that deferred '1' got it when a port of another name ending in '2'
\* (J MIDI 2 after K MIDI 1) arrived
C26_Witness ==
    /\ last.op = "check_for_display_name_on_last_port"
    /\ Len(ports) >= 2
    /\ \E id \in NearestOfLastKind :
        /\ port[id].display_name = <<"K", " ", "1">>
        /\ port[id].last_digit_to_add = <<>>
        /\ port[ports[Len(ports)]].full_name = <<"a", "2", "j", ":", "J", " ", "(", "c", "a", "p", "t", "u", "r", "e", ")", ":", " ", "J", " ", "M", "I", "D", "I", " ", "2">>

\* C27: after a sort_ports_in_canvas that completes with very_fast_operation
\* unset, every Connection with an end among the Group's ports is in the
\* canvas iff the manager shows its full type, whatever its in_canvas was
\* before
C27_ConnectionsReevaluated ==
    (last.op = "sort_ports_in_canvas" /\ ~raised /\ ~very_fast_operation) =>
        \A k \in 1..Len(connections) :
            (\E i \in 1..Len(ports) :
                ports[i] \in {connections[k].port_out, connections[k].port_in}) =>
                connections[k].in_canvas =
                    PortTypeShown(port_types_view, ConnectionFullType(State, connections[k]))

\* a Connection that was in the canvas is no longer after the sort, its type
\* being hidden now
C27_Witness ==
    /\ last.op = "sort_ports_in_canvas"
    /\ ~raised
    /\ \E k \in 1..Len(connections) :
        /\ ~connections[k].in_canvas
        /\ CountCalls(calls, "disconnect_ports", connections[k].connection_id) = 1

\* C28: whatever Group-level operations ran (add_all_ports_to_canvas,
\* change_port_types_view, sort_ports_in_canvas, portgroup_memory_added,
\* check_for_portgroup_on_last_port), every Portgroup of the Group that is in
\* the canvas has all its member Ports in the canvas, also when it is a
\* remembered Portgroup whose members differ in subtype
C28_MembersOfShownPortgroup ==
    \A k \in 1..Len(portgroups) :
        portgroups[k].in_canvas =>
            \A i \in 1..Len(portgroups[k].ports) : port[portgroups[k].ports[i]].in_canvas

\* C29: after a change_port_types_view that completes with very_fast_operation
\* unset, every Port of the Group is in the canvas iff the manager shows its
\* full type, and the Group is in the canvas iff one of its Ports is
C29_PortsAndBoxFollowView ==
    (last.op = "change_port_types_view" /\ ~raised /\ ~very_fast_operation) =>
        /\ \A i \in 1..Len(ports) :
            port[ports[i]].in_canvas =
                PortTypeShown(port_types_view, FullType(port[ports[i]]))
        /\ group.in_canvas = (\E i \in 1..Len(ports) : port[ports[i]].in_canvas)

\* the filter now hides every Port of a Group that has ports: its box left
\* the canvas with them
C29_Witness ==
    /\ last.op = "change_port_types_view"
    /\ ports # <<>>
    /\ ~group.in_canvas
    /\ CountCalls(calls, "remove_group", group.group_id) = 1

\* C30: in a Group whose ports have no order hint and no metadata and with
\* no remembered portgroup, a Portgroup of two ports made when the second
\* arrived is still in Group.portgroups, with the same two ports, after
\* sort_ports_in_canvas, also when a port of the other mode arrived between
\* the two
C30_StereoSurvivesSort ==
    (/\ last.op = "sort_ports_in_canvas"
     /\ ~raised
     /\ portgroups_memory = <<>>
     /\ \A i \in 1..Len(ports) :
            port[ports[i]].order = NoOrder /\ port[ports[i]].mdata_portgroup = "") =>
        \A pg \in PortgroupsBefore :
            Len(pg.ports) = 2 =>
                \E j \in 1..Len(portgroups) : portgroups[j].ports = pg.ports

\* the fields of the GroupPos object i, its layout_modes read through the
\* reference
PosValue(h, i) == [h.objs[i] EXCEPT !.layout_modes = h.dicts[@]]

\* C31: GroupPos.copy and GroupPos.eat give value semantics: a later
\* set_layout_mode or eat on one GroupPos object leaves every field of every
\* other object, its layout_modes included, unchanged
C31_ValueSemantics ==
    [][last'.op \in {"GroupPos.set_layout_mode", "GroupPos.eat"} =>
        \A j \in 1..Len(heap.objs) :
            j # last'.arg[1] => PosValue(heap', j) = PosValue(heap, j)]_vars

\* C32: without remembered portgroups every Portgroup of the Group was made
\* by the stereo detection; none of its members, the earlier port or the
\* port that arrived last, is flagged prevent_stereo
C32_NoPreventStereoMember ==
    portgroups_memory = <<>> =>
        \A k \in 1..Len(portgroups) :
            \A i \in 1..Len(portgroups[k].ports) :
                ~port[portgroups[k].ports[i]].prevent_stereo

\* C33: after Group.set_group_position(p) the current_position of the Group
\* is p, whether the Group is in the canvas or not
C33_PositionKept ==
    last.op = "set_group_position" => current_position = last.arg[1]

\* the wrapped states a list of patchcanvas calls gives to the whole box
WrapNull(list) ==
    {list[i].arg[2] : i \in {j \in 1..Len(list) : /\ list[j].fn = "wrap_group_box"
                                                  /\ list[j].arg[1] = MODE_NULL}}

\* C34: for a Group that is not split, Group.add_to_canvas passes to
\* wrap_group_box(PortMode.NULL) the boolean that Group.set_group_position
\* passes for the same position flags
C34_SameWrappedState ==
    (last.op = "Group.add_to_canvas" /\ WrapNull(calls) # {}) =>
        WrapNull(calls) =
            WrapNull(GroupSetGroupPosition(State, current_position, FALSE).calls)

\* C35: the icon Group.set_client_icon sends to the canvas with set_group_icon
\* is the icon name _get_box_type_and_icon computes for the Group as the call
\* left it: a metadata icon keeps priority over a client icon set after it
C35_IconSentIsComputed ==
    last.op = "set_client_icon" =>
        \A i \in 1..Len(calls) :
            calls[i].fn = "set_group_icon" =>
                calls[i].arg[2] = GetBoxTypeAndIcon(group)[2]

====
